---- MODULE Spec2Model ----
(***************************************************************************)
(* A model of the LKML dashboard backend: the reply-chain thread builder   *)
(* (src/Backend/src/parser/thread_builder.py), the SQLite persistence      *)
(* layer (src/Backend/src/database/db.py) and the ingestion pipeline       *)
(* (src/Backend/src/parser/pipeline.py).                                   *)
(*                                                                         *)
(* Message identities are numbers: 0 is the empty string '' (what the      *)
(* parsers yield for a missing Message-ID / In-Reply-To header), 1..MaxId  *)
(* are non-empty identities.  Row ids of the database start at 1.          *)
(***************************************************************************)
EXTENDS Integers, Sequences, FiniteSets, TLC

\* ------------------------------------------------------------------ bounds

\* Non-empty message identities of a thread-builder batch are 1..MaxId.
MaxId == 3
\* Longest References list of an email.
MaxRefs == 2
\* Longest batch handed to ThreadBuilder.
MaxBatch == 3
\* The same three bounds for the archives of the ingestion runs.
IngestMaxId == 2
IngestMaxRefs == 1
IngestMaxBatch == 2
\* Number of ingestion runs in one behaviour.
MaxRuns == 2
\* Number of direct Database calls in one behaviour.
MaxCalls == 4
\* Identities, email counts and post dates of the direct Database calls.
DbMaxId == 1
DbMaxCount == 2
DbMaxPost == 1
\* Identities and batch length of the batches whose emails carry a subject.
MetaMaxId == 2
MetaMaxBatch == 2
\* Longest raw Message-ID header, in characters, longest id text of an Atom
\* entry, in pieces, and the most entries of one mbox file or Atom feed.
MaxHeaderLen == 3
MaxIdText == 2
MaxEntries == 2
\* Number of summarization requests in one behaviour.
MaxRequests == 3
\* The identities of the emails handed to summarize_email.
MaxEmailId == 2
\* Message-IDs as strings: their length, and the members of a thread.
MaxIdChars == 2
MaxMembers == 2
\* The greatest identity of the replies that arrive after the first summary.
MaxReplyId == 4
\* The threads handed to _smart_truncate_thread have TruncateThreshold to
\* MaxThreadLen emails, at most MaxPatches of them with a patch or RFC
\* subject.
MaxThreadLen == 11
MaxPatches == 4

\* The rate limiter: the clock is moved while no call is in progress, by one
\* of ClockSteps seconds (an adjustment of the wall clock sets it back), as
\* long as it stays within 0..MaxClock; MaxLimiterCalls calls are made.
MaxClock == 90
MaxLimiterCalls == 17
\* The calls of _rate_limit whose times of return are kept.
MaxLoggedCalls == 6

\* GeminiClient.RATE_LIMITS: requests per minute of the models.
FlashRateLimit == 15
ProRateLimit == 2
\* stop_after_attempt(3) of _generate_content_with_retry.
MaxAttempts == 3
\* _smart_truncate_thread: threads of at most 10 emails are kept whole; of a
\* longer one, the root, up to 3 patch emails and the last 3 emails are kept.
TruncateThreshold == 10
KeepPatches == 3
KeepLast == 3

\* ------------------------------------------------------------- email dicts

\* The empty string '' of a missing header; falsy in Python.
Empty == 0

\* A missing dict key / SQL NULL / Python None; falsy in Python.
None == 0

\* Sequences over S of length at most n.
SeqsUpTo(S, n) == UNION {[1..k -> S] : k \in 0..n}

\* The header values other than the threading ones.  The batches explored
\* here carry no Date, From or Subject header: the parsers yield '' for each
\* (the subject '' is the empty sequence of tokens).
Dates == {Empty}
Senders == {Empty}
Subjects == {<<>>}

\* Subject headers with tags, as sequences of tokens: "[PATCH] fix",
\* "Re: [PATCH] fix" and "[RFC] idea".
PatchFix == <<[bracketed |-> TRUE, text |-> "PATCH"],
              [bracketed |-> FALSE, text |-> "fix"]>>
RePatchFix == <<[bracketed |-> FALSE, text |-> "Re:"],
                [bracketed |-> TRUE, text |-> "PATCH"],
                [bracketed |-> FALSE, text |-> "fix"]>>
RfcIdea == <<[bracketed |-> TRUE, text |-> "RFC"],
             [bracketed |-> FALSE, text |-> "idea"]>>
TaggedSubjects == {PatchFix, RePatchFix, RfcIdea}

\* The email dicts the parsers produce, with identities up to maxid and at
\* most maxrefs references.  References are extracted by the regex <([^>]+)>,
\* so a reference is never empty.
EmailDicts(maxid, maxrefs) ==
    [message_id : 0..maxid,
     in_reply_to : 0..maxid,
     references : SeqsUpTo(1..maxid, maxrefs),
     date : Dates,
     from : Senders,
     subject : Subjects]

\* ------------------------------------------------------------ ThreadBuilder

\* self.email_map = {e['message_id']: e for e in emails if e.get('message_id')}
\* The keys of the index.
EmailMapKeys(emails) ==
    {emails[i].message_id : i \in 1..Len(emails)} \ {Empty}

\* self.email_map.get(id): a dict comprehension keeps the last email of each key.
EmailMapGet(emails, id) ==
    LET hits == {i \in 1..Len(emails) : emails[i].message_id = id}
    IN  emails[CHOOSE i \in hits : \A j \in hits : j <= i]

\* _find_thread_root, lines 56-60: the state of the walk before the loop.
\* pc is "loop" while the while-loop runs and "return" once a value is returned;
\* steps counts the passes through the loop body that visit an identity
\* (one per visited.add).
WalkStart(email) ==
    IF email.message_id = Empty
    THEN [pc |-> "return", current_id |-> Empty, visited |-> {}, ret |-> Empty,
          steps |-> 0]
    ELSE [pc |-> "loop", current_id |-> email.message_id, visited |-> {},
          ret |-> Empty, steps |-> 0]

\* Line 92, after the loop: return current_id or email.get('message_id', '')
WalkFallThrough(email, w) ==
    [w EXCEPT !.pc = "return",
              !.ret = IF w.current_id # Empty THEN w.current_id
                      ELSE email.message_id]

\* One evaluation of the loop condition and, if it holds, one pass through the
\* loop body (lines 63-90).
WalkStepNoVisitedCheck(emails, email, w) ==
    IF w.current_id = Empty
    THEN WalkFallThrough(email, w)
    ELSE LET v == [w EXCEPT !.visited = w.visited \cup {w.current_id},
                             !.steps = w.steps + 1]
         IN  IF w.current_id \notin EmailMapKeys(emails)
             THEN WalkFallThrough(email, v)
             ELSE LET current_email == EmailMapGet(emails, w.current_id)
                      parent_id == current_email.in_reply_to
                      references == current_email.references
                  IN  IF parent_id # Empty /\ parent_id \in EmailMapKeys(emails)
                      THEN [v EXCEPT !.current_id = parent_id]
                      ELSE IF Len(references) > 0
                              /\ references[1] \in EmailMapKeys(emails)
                           THEN [v EXCEPT !.pc = "return", !.ret = references[1]]
                           ELSE [v EXCEPT !.pc = "return", !.ret = w.current_id]

WalkStep(emails, email, w) ==
    IF w.current_id = Empty
    THEN WalkFallThrough(email, w)                       \* while current_id:
    ELSE IF w.current_id \in w.visited
    THEN WalkFallThrough(email, w)                       \* break (line 65)
    ELSE LET v == [w EXCEPT !.visited = w.visited \cup {w.current_id},
                             !.steps = w.steps + 1]
         IN  IF w.current_id \notin EmailMapKeys(emails)
             THEN WalkFallThrough(email, v)              \* break (line 71)
             ELSE LET current_email == EmailMapGet(emails, w.current_id)
                      parent_id == current_email.in_reply_to
                      references == current_email.references
                  IN  IF parent_id # Empty /\ parent_id \in EmailMapKeys(emails)
                      THEN [v EXCEPT !.current_id = parent_id]   \* continue
                      ELSE IF Len(references) > 0
                              /\ references[1] \in EmailMapKeys(emails)
                           THEN [v EXCEPT !.pc = "return", !.ret = references[1]]
                           ELSE [v EXCEPT !.pc = "return", !.ret = w.current_id]

\* The walk run to its return.
RECURSIVE WalkRun(_, _, _)
WalkRun(emails, email, w) ==
    IF w.pc = "return" THEN w ELSE WalkRun(emails, email, WalkStep(emails, email, w))

\* _find_thread_root(email) over the index of the batch `emails`.
FindThreadRoot(emails, email) == WalkRun(emails, email, WalkStart(email)).ret

\* threads[root_id] = [email]: the list is replaced, not appended to.
DictAppendOverwrite(threads, key, email) ==
    IF \E k \in 1..Len(threads.keys) : threads.keys[k] = key
    THEN [threads EXCEPT !.val[key] = <<email>>]
    ELSE [keys |-> Append(threads.keys, key),
          val |-> [x \in DOMAIN threads.val \cup {key} |->
                     IF x = key THEN <<email>> ELSE threads.val[x]]]

\* threads[root_id].append(email) on a defaultdict(list).  A dict is a record
\* of its keys in insertion order and its values.
DictAppend(threads, key, email) ==
    IF \E k \in 1..Len(threads.keys) : threads.keys[k] = key
    THEN [threads EXCEPT !.val[key] = Append(@, email)]
    ELSE [keys |-> Append(threads.keys, key),
          val |-> [x \in DOMAIN threads.val \cup {key} |->
                     IF x = key THEN <<email>> ELSE threads.val[x]]]

EmptyDict == [keys |-> <<>>, val |-> [x \in {} |-> <<>>]]

\* build_threads, lines 31-38: the loop over self.emails from position i on.
RECURSIVE BuildThreadsFrom(_, _, _)
BuildThreadsFrom(emails, i, threads) ==
    IF i > Len(emails) THEN threads
    ELSE BuildThreadsFrom(emails, i + 1,
           DictAppend(threads, FindThreadRoot(emails, emails[i]), emails[i]))

\* A build_threads that resolves each email against the emails seen so far
\* instead of the whole batch (an index filled while iterating).
BuildThreadsIncrementalIndex(emails) ==
    LET RECURSIVE go(_, _)
        go(i, threads) ==
          IF i > Len(emails) THEN threads
          ELSE go(i + 1, DictAppend(threads,
                    FindThreadRoot(SubSeq(emails, 1, i), emails[i]), emails[i]))
    IN  go(1, EmptyDict)

\* ThreadBuilder(emails).build_threads()
BuildThreads(emails) == BuildThreadsFrom(emails, 1, EmptyDict)

\* _extract_tags: re.findall(r'\[([^\]]+)\]', subject).  A subject is a sequence
\* of tokens, each a plain word or a bracketed tag; the tags are the texts of
\* the bracketed tokens, in order.
ExtractTags(subject) ==
    LET tagged == SelectSeq(subject, LAMBDA t : t.bracketed)
    IN  [k \in 1..Len(tagged) |-> tagged[k].text]

Min(S) == CHOOSE x \in S : \A y \in S : x <= y
Max(S) == CHOOSE x \in S : \A y \in S : y <= x

\* get_thread_metadata(thread_emails), lines 104-129.  An empty member list
\* yields the empty dict {}, whose every .get() is None.
GetThreadMetadata(thread_emails) ==
    LET participants ==
            {thread_emails[i].from : i \in 1..Len(thread_emails)} \ {Empty}
        dates == {thread_emails[i].date : i \in 1..Len(thread_emails)} \ {Empty}
        root_email == thread_emails[1]
    IN  IF Len(thread_emails) = 0
        THEN [root_message_id |-> None, subject |-> None,
              participant_count |-> None, email_count |-> None,
              first_post |-> None, last_post |-> None, tags |-> <<>>]
        ELSE [root_message_id |-> root_email.message_id,
              subject |-> root_email.subject,
              participant_count |-> Cardinality(participants),
              email_count |-> Len(thread_emails),
              first_post |-> IF dates # {} THEN Min(dates) ELSE None,
              last_post |-> IF dates # {} THEN Max(dates) ELSE None,
              tags |-> ExtractTags(root_email.subject)]

\* ----------------------------------------------------------------- Database

\* schema.sql: emails.message_id is UNIQUE, so the INSERT of insert_email
\* raises sqlite3.IntegrityError when a row with that message_id exists.
EmailsUniqueViolation(emails, message_id) ==
    \E r \in emails : r.message_id = message_id

\* schema.sql: threads.root_message_id is UNIQUE.
ThreadsUniqueViolation(threads, root_message_id) ==
    \E r \in threads : r.root_message_id = root_message_id

\* schema.sql: a (thread_id, email_id) pair is stored once in thread_emails.
LinkUniqueViolation(thread_emails, thread_id, email_id) ==
    <<thread_id, email_id>> \in thread_emails

\* cursor.lastrowid of an INSERT into a table with an integer primary key and
\* no deleted rows: one more than the largest id.
LastRowId(table) == Cardinality(table) + 1

\* The row insert_email writes (lines 49-63): the id and the columns.  The
\* columns body and raw_email are left out; references_list stands for the
\* list that json.dumps writes as text, which nothing modelled here reads back.
EmailRow(id, email_data) ==
    [id |-> id,
     message_id |-> email_data.message_id,
     subject |-> email_data.subject,
     from_address |-> email_data.from,
     date |-> email_data.date,
     in_reply_to |-> email_data.in_reply_to,
     references_list |-> email_data.references]

\* An insert_email whose INSERT replaces instead of failing on a duplicate
\* (INSERT OR REPLACE): the old row goes and a new row with a new id comes.
InsertEmailOrReplace(db, email_data) ==
    LET kept == {r \in db.emails : r.message_id # email_data.message_id}
        newid == IF db.emails = {} THEN 1
                 ELSE Max({r.id : r \in db.emails}) + 1
    IN  [db |-> [db EXCEPT !.emails = kept \cup {EmailRow(newid, email_data)}],
         ret |-> newid, exc |-> "none"]

\* Database.insert_email(email_data), lines 42-75.  The result is the database
\* after the call, the value returned and the exception raised ("none": none).
InsertEmail(db, email_data) ==
    IF EmailsUniqueViolation(db.emails, email_data.message_id)
    THEN \* except sqlite3.IntegrityError: SELECT id ... ; fetchone()
         LET found == {r \in db.emails : r.message_id = email_data.message_id}
         IN  [db |-> db,
              ret |-> IF found # {} THEN (CHOOSE r \in found : TRUE).id ELSE None,
              exc |-> "none"]
    ELSE [db |-> [db EXCEPT !.emails =
                     @ \cup {EmailRow(LastRowId(db.emails), email_data)}],
          ret |-> LastRowId(db.emails), exc |-> "none"]

\* The row insert_thread writes (lines 100-113); tags stands for the list that
\* json.dumps writes as text.
ThreadRow(id, thread_data) ==
    [id |-> id,
     root_message_id |-> thread_data.root_message_id,
     subject |-> thread_data.subject,
     participant_count |-> thread_data.participant_count,
     email_count |-> thread_data.email_count,
     first_post |-> thread_data.first_post,
     last_post |-> thread_data.last_post,
     tags |-> thread_data.tags]

\* An insert_thread whose UPDATE sets every column of the stored row to the
\* new metadata.
InsertThreadUpdateAll(db, thread_data) ==
    IF ThreadsUniqueViolation(db.threads, thread_data.root_message_id)
    THEN LET updated ==
               {IF r.root_message_id = thread_data.root_message_id
                THEN ThreadRow(r.id, thread_data)
                ELSE r : r \in db.threads}
             found == {r \in updated :
                         r.root_message_id = thread_data.root_message_id}
         IN  [db |-> [db EXCEPT !.threads = updated],
              ret |-> (CHOOSE r \in found : TRUE).id,
              exc |-> "none"]
    ELSE [db |-> [db EXCEPT !.threads =
                     @ \cup {ThreadRow(LastRowId(db.threads), thread_data)}],
          ret |-> LastRowId(db.threads), exc |-> "none"]

\* An insert_thread that stores a second row for a root_message_id it already
\* holds (no uniqueness on the column).
InsertThreadAlways(db, thread_data) ==
    [db |-> [db EXCEPT !.threads =
                @ \cup {ThreadRow(LastRowId(db.threads), thread_data)}],
     ret |-> LastRowId(db.threads), exc |-> "none"]

\* Database.insert_thread(thread_data), lines 95-135.
InsertThread(db, thread_data) ==
    IF ThreadsUniqueViolation(db.threads, thread_data.root_message_id)
    THEN \* except sqlite3.IntegrityError: UPDATE ... SET email_count, last_post
         LET updated ==
               {IF r.root_message_id = thread_data.root_message_id
                THEN [r EXCEPT !.email_count = thread_data.email_count,
                               !.last_post = thread_data.last_post]
                ELSE r : r \in db.threads}
             found == {r \in updated :
                         r.root_message_id = thread_data.root_message_id}
         IN  [db |-> [db EXCEPT !.threads = updated],
              ret |-> (CHOOSE r \in found : TRUE).id,
              exc |-> "none"]
    ELSE [db |-> [db EXCEPT !.threads =
                     @ \cup {ThreadRow(LastRowId(db.threads), thread_data)}],
          ret |-> LastRowId(db.threads), exc |-> "none"]

\* A link_email_to_thread without the except branch.
LinkEmailToThreadNoExcept(db, thread_id, email_id) ==
    IF LinkUniqueViolation(db.thread_emails, thread_id, email_id)
    THEN [db |-> db, ret |-> None, exc |-> "IntegrityError"]
    ELSE [db |-> [db EXCEPT !.thread_emails = @ \cup {<<thread_id, email_id>>}],
          ret |-> None, exc |-> "none"]

\* Database.link_email_to_thread(thread_id, email_id), lines 139-147.
LinkEmailToThread(db, thread_id, email_id) ==
    IF LinkUniqueViolation(db.thread_emails, thread_id, email_id)
    THEN [db |-> db, ret |-> None, exc |-> "none"]      \* pass  # Already linked
    ELSE [db |-> [db EXCEPT !.thread_emails = @ \cup {<<thread_id, email_id>>}],
          ret |-> None, exc |-> "none"]

\* Database.get_stats(), lines 176-180.
GetStats(db) ==
    [total_emails |-> Cardinality(db.emails),
     total_threads |-> Cardinality(db.threads)]

EmptyDb == [emails |-> {}, threads |-> {}, thread_emails |-> {}]

\* ----------------------------------------------------------------- pipeline

\* dict.get(key) on a dict held as a function: None when the key is absent.
DictGet(d, key) == IF key \in DOMAIN d THEN d[key] ELSE None

\* d[key] = value
DictSet(d, key, value) ==
    [x \in DOMAIN d \cup {key} |-> IF x = key THEN value ELSE d[x]]

\* A write that fails in SQLite with an error other than IntegrityError
\* (database locked, disk full): no except clause of insert_email (line 68) or
\* insert_thread (line 118) matches it, so it leaves the method, and nothing is
\* written.
WriteFailure(db) == [db |-> db, ret |-> None, exc |-> "OperationalError"]

\* The write the failure hits in one run: the at-th email of the batch or the
\* at-th thread of the dict; NoFault when every write goes through.
NoFault == [table |-> "none", at |-> 0]

\* process_mbox, lines 45-48: the loop that stores the emails from position i
\* on.  p holds the database, the email_ids dict and the exception that ended
\* the run ("none" while it goes on): the loop is in no try block, so an
\* exception out of insert_email ends it.
RECURSIVE StoreEmails(_, _, _, _)
StoreEmails(emails, i, p, fault) ==
    IF i > Len(emails) \/ p.exc # "none" THEN p
    ELSE LET r == IF fault.table = "emails" /\ fault.at = i
                  THEN WriteFailure(p.db)
                  ELSE InsertEmail(p.db, emails[i])
         IN  StoreEmails(emails, i + 1,
               [db |-> r.db,
                email_ids |-> IF r.exc = "none" /\ r.ret # None
                              THEN DictSet(p.email_ids, emails[i].message_id, r.ret)
                              ELSE p.email_ids,
                exc |-> r.exc], fault)

\* process_mbox, lines 71-74: the loop that links the members of one thread.
RECURSIVE LinkMembers(_, _, _, _)
LinkMembers(thread_emails, j, thread_id, p) ==
    IF j > Len(thread_emails) \/ p.exc # "none" THEN p
    ELSE LET email_db_id == DictGet(p.email_ids, thread_emails[j].message_id)
             r == LinkEmailToThread(p.db, thread_id, email_db_id)
         IN  LinkMembers(thread_emails, j + 1, thread_id,
               IF email_db_id # None
               THEN [p EXCEPT !.db = r.db, !.exc = r.exc]
               ELSE p)

\* process_mbox, lines 63-74: the loop over threads.items() from the k-th key.
RECURSIVE StoreThreads(_, _, _, _)
StoreThreads(threads, k, p, fault) ==
    IF k > Len(threads.keys) \/ p.exc # "none" THEN p
    ELSE LET thread_emails == threads.val[threads.keys[k]]
             thread_meta == GetThreadMetadata(thread_emails)
             r == IF fault.table = "threads" /\ fault.at = k
                  THEN WriteFailure(p.db)
                  ELSE InsertThread(p.db, thread_meta)
         IN  StoreThreads(threads, k + 1,
               IF r.exc # "none"
               THEN [p EXCEPT !.db = r.db, !.exc = r.exc]
               ELSE LinkMembers(thread_emails, 1, r.ret, [p EXCEPT !.db = r.db]),
               fault)

\* LKMLPipeline.process_mbox over the emails parsed from the mbox file,
\* lines 35-74, with the write that fails in the run: the database after the
\* run, the value returned (the method has no return value: None) and the
\* exception that ended it.
ProcessMboxFailing(db, emails, fault) ==
    IF Len(emails) = 0
    THEN [db |-> db, ret |-> None, exc |-> "none"]       \* if not emails: return
    ELSE LET stored == StoreEmails(emails, 1,
                         [db |-> db, email_ids |-> [x \in {} |-> None],
                          exc |-> "none"], fault)
             done == StoreThreads(BuildThreads(emails), 1, stored, fault)
         IN  [db |-> done.db, ret |-> None, exc |-> done.exc]

\* The same run when every write goes through.
ProcessMboxOn(db, emails) == ProcessMboxFailing(db, emails, NoFault)

\* ------------------------------------------------------------------ parsers

\* A header value is a sequence of characters; a missing header is read as ''
\* (message.get('Message-ID', '')), the empty sequence.  NonAscii stands for a
\* byte outside ASCII.
NonAscii == "\\xff"
Whitespace == {" "}
Chars == {" ", "<", ">", "a", NonAscii}
HeaderValues == SeqsUpTo(Chars, MaxHeaderLen)

\* message.get(name) of the email package hands back an email.header.Header
\* object instead of a str for a header that holds non-ASCII bytes.
IsHeaderObject(value) == \E i \in 1..Len(value) : value[i] = NonAscii

\* str.strip(chars): the characters of chars are removed from both ends.
RECURSIVE LStrip(_, _)
LStrip(str, chars) ==
    IF Len(str) > 0 /\ str[1] \in chars THEN LStrip(Tail(str), chars) ELSE str
RECURSIVE RStrip(_, _)
RStrip(str, chars) ==
    IF Len(str) > 0 /\ str[Len(str)] \in chars
    THEN RStrip(SubSeq(str, 1, Len(str) - 1), chars) ELSE str
Strip(str, chars) == RStrip(LStrip(str, chars), chars)

\* EmailParser._clean_message_id, lines 98-106: '' for a missing header, else
\* message_id.strip().strip('<>'); a Header object has no strip.
CleanMessageId(message_id) ==
    IF message_id = <<>> THEN [ret |-> <<>>, exc |-> "none"]
    ELSE IF IsHeaderObject(message_id)
    THEN [ret |-> <<>>, exc |-> "AttributeError"]
    ELSE [ret |-> Strip(Strip(message_id, Whitespace), {"<", ">"}),
          exc |-> "none"]

\* The messages of an mbox file: each with its raw Message-ID header and no
\* other header.
MboxMessages == [message_id : HeaderValues]

\* EmailParser._parse_message, lines 54-96, on a message without Subject,
\* From, Date, In-Reply-To and References headers.
ParseMessage(message) ==
    LET message_id == CleanMessageId(message.message_id)
    IN  [ret |-> [message_id |-> message_id.ret,
                  in_reply_to |-> <<>>,
                  references |-> <<>>,
                  date |-> Empty, from |-> Empty, subject |-> <<>>],
         exc |-> message_id.exc]

\* The text of an atom:id element, in pieces: the prefix 'urn:uuid:' and the
\* characters of the UUID.
UrnUuid == "urn:uuid:"
IdTexts == SeqsUpTo({UrnUuid, "1", "2"}, MaxIdText)

\* The entries of an Atom feed: whether the entry is well-formed XML (a
\* truncated entry is not), whether it has an atom:id element, and the text of
\* that element.  The other elements are absent.
AtomEntries ==
    {entry \in [well_formed : BOOLEAN, has_id : BOOLEAN, id_text : IdTexts] :
       ~entry.has_id => entry.id_text = <<>>}

\* id_elem.text.replace('urn:uuid:', '')
RemoveUrnUuid(id_text) == SelectSeq(id_text, LAMBDA piece : piece # UrnUuid)

\* AtomParser._parse_entry, lines 41-100, on an entry with no element other
\* than atom:id.
ParseEntry(entry) ==
    [message_id |-> IF entry.has_id THEN RemoveUrnUuid(entry.id_text) ELSE <<>>,
     in_reply_to |-> <<>>,
     references |-> <<>>,
     date |-> Empty, from |-> Empty, subject |-> <<>>]

\* The files handed to the parsers.
Sources ==
    [kind : {"mbox"}, entries : SeqsUpTo(MboxMessages, MaxEntries)]
      \cup [kind : {"atom"}, entries : SeqsUpTo(AtomEntries, MaxEntries)]

\* ------------------------------------------------------------- GeminiClient

\* Python None where a dict is expected.
NoneDict == [none |-> TRUE]

\* The models a client is made for, and MODELS.get(model).
Models == {"flash", "pro"}
ModelName(model) ==
    IF model = "pro" THEN "gemini-2.5-pro" ELSE "gemini-2.5-flash"

\* GeminiClient.__init__, lines 63-113: the fields the requests use.
NewClient(model, enable_cache) ==
    [model_name |-> ModelName(model),
     rate_limit |-> IF model = "pro" THEN ProRateLimit ELSE FlashRateLimit,
     request_count |-> 0,
     enable_cache |-> enable_cache,
     metrics |-> [api_calls |-> 0, cache_hits |-> 0, errors |-> 0]]

\* _rate_limit, lines 120-138.  expired: at least 60 s have passed since
\* request_window_start.  When the count has reached the limit inside the
\* window, wait_time is positive: the call sleeps and starts a new window.
RateLimit(client, expired) ==
    LET count == IF expired THEN 0 ELSE client.request_count
        waits == count >= client.rate_limit
    IN  [client |-> [client EXCEPT !.request_count =
                        (IF waits THEN 0 ELSE count) + 1],
         slept |-> waits]

\* TOKEN_LIMITS, lines 27-32, for the models 'flash' and 'pro', and the
\* characters counted for one token (line 198).  No method of the client
\* reads TOKEN_LIMITS.
FlashTokenLimit == 900000
ProTokenLimit == 1900000
CharsPerToken == 4
TokenLimitOf(model_name) ==
    IF model_name = ModelName("pro") THEN ProTokenLimit ELSE FlashTokenLimit

\* The length of the window of _rate_limit in seconds (lines 125, 131).
Window == 60

\* __init__, lines 95-99: the rate limiter of a client made at current_time.
NewLimiter(model, current_time) ==
    [rate_limit |-> IF model = "pro" THEN ProRateLimit ELSE FlashRateLimit,
     request_count |-> 0,
     request_window_start |-> current_time]

\* _rate_limit, lines 124-127: the counter is reset in a new window.
WindowReset(lim, current_time) ==
    IF current_time - lim.request_window_start >= Window
    THEN [lim EXCEPT !.request_count = 0,
                     !.request_window_start = current_time]
    ELSE lim

\* A wait_time that is never positive.
WaitTimeZero(lim, current_time) == 0

\* _rate_limit, line 131: wait_time.
WaitTime(lim, current_time) ==
    Window - (current_time - lim.request_window_start)

\* _rate_limit, lines 130-133: the call sleeps.
MustSleep(lim, current_time) ==
    /\ lim.request_count >= lim.rate_limit
    /\ WaitTime(lim, current_time) > 0

\* _rate_limit, lines 135-136: after the sleep, at current_time.
AfterSleep(lim, current_time) ==
    [lim EXCEPT !.request_count = 0, !.request_window_start = current_time]

\* _rate_limit, line 138.
Counted(lim) == [lim EXCEPT !.request_count = @ + 1]

\* _get_cache_key, lines 140-143: the md5 of "summary_type:content:model_name",
\* held as the triple that is hashed.
GetCacheKey(client, content, summary_type) ==
    <<summary_type, content, client.model_name>>

\* The cache directory without a file.
EmptyCache == [cache_key \in {} |-> NoneDict]

\* A _get_from_cache that finds no file.
GetFromCacheNoFile(client, cache, cache_key) ==
    [client |-> client, ret |-> NoneDict]

\* What is read from a cache file that json.dump did not finish.
Corrupt == [corrupt |-> TRUE]

\* The ways a read of an existing cache file goes: open() raises, json.load
\* raises, or the payload is read.
ReadFaults == {"open_fails", "load_fails"}

\* A _get_from_cache without its try block: the exception of the read leaves
\* the method.
GetFromCacheIONoExcept(client, cache, cache_key, io) ==
    IF ~client.enable_cache \/ cache_key \notin DOMAIN cache
    THEN [client |-> client, ret |-> NoneDict, exc |-> "none"]
    ELSE IF io = "open_fails"
    THEN [client |-> client, ret |-> NoneDict, exc |-> "OSError"]
    ELSE IF io = "load_fails" \/ cache[cache_key] = Corrupt
    THEN [client |-> [client EXCEPT !.metrics.cache_hits = @ + 1],
          ret |-> NoneDict, exc |-> "JSONDecodeError"]
    ELSE [client |-> [client EXCEPT !.metrics.cache_hits = @ + 1],
          ret |-> cache[cache_key], exc |-> "none"]

\* _get_from_cache, lines 145-159, with the outcome io of the read of the
\* file: cache_hits is counted once the file is open (line 154), and every
\* exception of the read is caught (lines 156-158).
GetFromCacheIO(client, cache, cache_key, io) ==
    IF ~client.enable_cache
    THEN [client |-> client, ret |-> NoneDict, exc |-> "none"]
    ELSE IF cache_key \notin DOMAIN cache
    THEN [client |-> client, ret |-> NoneDict, exc |-> "none"]
    ELSE IF io = "open_fails"
    THEN [client |-> client, ret |-> NoneDict, exc |-> "none"]
    ELSE IF io = "load_fails" \/ cache[cache_key] = Corrupt
    THEN [client |-> [client EXCEPT !.metrics.cache_hits = @ + 1],
          ret |-> NoneDict, exc |-> "none"]
    ELSE [client |-> [client EXCEPT !.metrics.cache_hits = @ + 1],
          ret |-> cache[cache_key], exc |-> "none"]

\* _get_from_cache, lines 145-159, when open() and json.load do not raise
\* for a reason outside the file: the payload read (None without one) and the
\* client with its metrics.
GetFromCache(client, cache, cache_key) ==
    GetFromCacheIO(client, cache, cache_key, "ok")

\* The ways a write of a cache file goes: open() raises and the directory is
\* as before, json.dump raises and leaves an unfinished file, or the payload
\* is written.
WriteFaults == {"open_fails", "dump_fails"}

\* _save_to_cache, lines 161-171, with the outcome io of the write; every
\* exception of the write is caught (lines 170-171).
SaveToCacheIO(client, cache, cache_key, data, io) ==
    IF ~client.enable_cache \/ io = "open_fails" THEN cache
    ELSE [k \in DOMAIN cache \cup {cache_key} |->
            IF k = cache_key
            THEN (IF io = "dump_fails" THEN Corrupt ELSE data)
            ELSE cache[k]]

\* _save_to_cache, lines 161-171: the cache directory after the call.
SaveToCache(client, cache, cache_key, data) ==
    IF ~client.enable_cache THEN cache
    ELSE [k \in DOMAIN cache \cup {cache_key} |->
            IF k = cache_key THEN data ELSE cache[k]]

\* ''.join([e.get('message_id', '') for e in thread_emails]), line 295: the
\* identities in a row; '' adds nothing to the string.
ThreadKey(thread_emails) ==
    LET ids == [i \in 1..Len(thread_emails) |-> thread_emails[i].message_id]
    IN  SelectSeq(ids, LAMBDA id : id # Empty)

\* ''.join(...), line 295, on identities that are strings of characters: the
\* characters of the identities in a row, with nothing between them.
RECURSIVE JoinIds(_)
JoinIds(ids) == IF ids = <<>> THEN <<>> ELSE Head(ids) \o JoinIds(Tail(ids))

\* The Message-IDs of the members: strings of one character or more.
IdStrings == SeqsUpTo({"a", "b"}, MaxIdChars) \ {<<>>}

\* The lists of the message_ids of the members of a stored thread: at least
\* one member, no identity twice (emails.message_id is unique).
MemberLists ==
    {ids \in SeqsUpTo(IdStrings, MaxMembers) :
       /\ ids # <<>>
       /\ \A i, j \in 1..Len(ids) : ids[i] = ids[j] => i = j}

\* A test of the subject that every email passes.
IsPatchSubjectAny(subject) == TRUE

\* '[PATCH' in subject or '[RFC' in subject, with subject in upper case.
IsPatchSubject(subject) ==
    \E t \in 1..Len(subject) :
      subject[t].bracketed /\ subject[t].text \in {"PATCH", "RFC"}

\* The emails of a list whose message_id is not among those before them.
RECURSIVE DedupeById(_, _)
DedupeById(keep, seen) ==
    IF keep = <<>> THEN <<>>
    ELSE IF Head(keep).message_id \in seen THEN DedupeById(Tail(keep), seen)
    ELSE <<Head(keep)>>
           \o DedupeById(Tail(keep), seen \cup {Head(keep).message_id})

\* A _smart_truncate_thread that keeps every patch email of the middle, not
\* the first three only.
SmartTruncateThreadAllPatches(thread_emails) ==
    IF Len(thread_emails) <= TruncateThreshold THEN thread_emails
    ELSE LET n == Len(thread_emails)
             middle == SubSeq(thread_emails, 2, n - KeepLast)
             patch_emails ==
                 SelectSeq(middle, LAMBDA e : IsPatchSubject(e.subject))
         IN  DedupeById(<<thread_emails[1]>> \o patch_emails
                          \o SubSeq(thread_emails, n - KeepLast + 1, n), {})

\* _smart_truncate_thread, lines 383-417.
SmartTruncateThread(thread_emails) ==
    IF Len(thread_emails) <= TruncateThreshold THEN thread_emails
    ELSE LET n == Len(thread_emails)
             middle == SubSeq(thread_emails, 2, n - KeepLast)
             patch_emails ==
                 SelectSeq(middle, LAMBDA e : IsPatchSubject(e.subject))
             kept == IF Len(patch_emails) > KeepPatches
                     THEN SubSeq(patch_emails, 1, KeepPatches)
                     ELSE patch_emails
         IN  DedupeById(<<thread_emails[1]>> \o kept
                          \o SubSeq(thread_emails, n - KeepLast + 1, n), {})

\* The list thread_emails after _smart_truncate_thread has returned: no line
\* of 383-417 assigns to an element of the list or calls a method that
\* changes it (the slices and keep are new lists).
ArgumentAfterPop(thread_emails) ==
    IF thread_emails = <<>> THEN <<>> ELSE Tail(thread_emails)
ArgumentAfter(thread_emails) == thread_emails

\* The body sizes of the emails of a thread, in characters.
BodySizes == {100, 4000000}

\* A thread of n emails for _smart_truncate_thread: email i has identity i,
\* but for dup = <<i, j>> email j has the identity of email i; the emails at
\* the positions of patches have a "[PATCH] fix" or "[RFC] idea" subject,
\* the others none; each body has chars characters.
TruncThread(n, patches, dup, chars) ==
    [i \in 1..n |->
       [message_id |-> IF i = dup[2] THEN dup[1] ELSE i,
        subject |-> IF i \notin patches THEN <<>>
                    ELSE IF i % 2 = 0 THEN PatchFix ELSE RfcIdea,
        body_chars |-> chars]]

\* The emails whose identity a later email may share: the root, the first
\* of the middle, and the first of the last three of the shortest thread.
DupFirsts == {1, 2, TruncateThreshold - KeepLast + 1}

\* The lengths of the threads below the threshold.
ShortLens == {0, 1, 4}

TruncThreads ==
    {TruncThread(n, patches, dup, chars) :
       n \in ShortLens \cup (TruncateThreshold..MaxThreadLen),
       patches \in {P \in SUBSET (1..MaxThreadLen) :
                      Cardinality(P) <= MaxPatches},
       dup \in {<<0, 0>>}
              \cup {d \in DupFirsts \X (1..MaxThreadLen) : d[1] < d[2]},
       chars \in BodySizes}

\* The exceptions of generate_content as lines 207-216 tell them apart: a
\* message with 'quota' or 'rate limit', one with 'safety' or 'blocked', and
\* any other (a timeout, a 5xx answer, a connection error).
ErrorKinds == {"transient", "quota", "safety"}

\* What the provider does with one generate_content call: it answers with a
\* JSON object, with text that is not JSON, with JSON that is not an object
\* (a list, a string, a number), or the call raises.
ProviderOutcomes == {"json", "not_json", "not_object"} \cup ErrorKinds

\* The outcomes of a provider whose answers hold no JSON other than objects
\* and whose failures are of one kind.
BasicOutcomes == {"json", "not_json", "transient"}

\* A retry policy that never stops.
StopNever(attempts) == FALSE

\* stop=stop_after_attempt(3), line 174.
StopAfterAttempt(attempts) == attempts >= MaxAttempts

\* retry=retry_if_exception_type((ConnectionError, TimeoutError, Exception)),
\* lines 176-180: every exception of the call is an Exception, and each
\* branch of lines 207-216 raises it again to the retry.
Retried(error_kind) == TRUE

\* The exception that building the result dict raises (lines 259-271,
\* 311-325, 361-372): json.loads gave a value that is no dict and has no
\* method get.
BuildResultExc(outcome) ==
    IF outcome = "not_object" THEN "AttributeError" ELSE "none"

\* A summarize_* without its except clause.
CaughtNever(exception) == FALSE

\* except Exception as e, lines 273, 327, 374: what the try block of
\* summarize_* raises is caught.
Caught(exception) == TRUE

\* _parse_json_response(response.text).get('tldr', ''): the tldr of a JSON
\* answer; a text that is not JSON parses to {}.  A text is a sequence of
\* pieces.
ResponseTldr(outcome) == IF outcome = "json" THEN <<"tldr">> ELSE <<>>

\* str(e) of the tenacity.RetryError that _generate_content_with_retry raises
\* after the last attempt (no reraise=True): it names the last attempt, not
\* the message of the provider's exception.
RetryErrorStr == "RetryError[<Future state=finished raised Exception>]"

\* The result dicts of summarize_email, summarize_thread and
\* generate_daily_digest (lines 259-271, 311-325, 361-372): a success dict has
\* no key 'error', so .get('error') is None, held here as ''.
SummaryResult(client, summary_type, tldr, generated_at) ==
    [summary_type |-> summary_type,
     error |-> "",
     tldr |-> tldr,
     llm_model |-> client.model_name,
     generated_at |-> generated_at]

\* The result dict of summarize_email (lines 259-271): it names the email by
\* email.get('message_id').
EmailSummaryResult(client, email_id, tldr, generated_at) ==
    [email_id |-> email_id,
     summary_type |-> "email",
     error |-> "",
     tldr |-> tldr,
     llm_model |-> client.model_name,
     generated_at |-> generated_at]

\* _error_summary, lines 571-579; error[:100] keeps the whole of RetryErrorStr.
ErrorSummary(client, summary_type, error, generated_at) ==
    [summary_type |-> summary_type,
     error |-> error,
     tldr |-> <<"Error generating summary: ", error>>,
     llm_model |-> client.model_name,
     generated_at |-> generated_at]

\* ----------------------------------------------------------- LKMLSummarizer

\* The rows of a set in the order of ORDER BY e.date ASC, rows of one date in
\* the order of their ids.
RECURSIVE OrderByDate(_)
OrderByDate(rows) ==
    IF rows = {} THEN <<>>
    ELSE LET first == CHOOSE r \in rows :
                        \A q \in rows :
                          r.date < q.date \/ (r.date = q.date /\ r.id <= q.id)
         IN  <<first>> \o OrderByDate(rows \ {first})

\* summarize_thread, lines 57-65: SELECT e.* FROM emails e JOIN thread_emails
\* te ON e.id = te.email_id WHERE te.thread_id = ? ORDER BY e.date ASC
ThreadEmailRows(db, thread_id) ==
    OrderByDate({e \in db.emails : <<thread_id, e.id>> \in db.thread_emails})

\* _get_existing_summary, lines 398-420: the rows the query may return, those
\* of the thread and type with the greatest generated_at (LIMIT 1 takes one).
GetExistingSummary(summaries, thread_id, summary_type) ==
    LET rows == {r \in summaries :
                   r.thread_id = thread_id /\ r.summary_type = summary_type}
    IN  {r \in rows : \A q \in rows : q.generated_at <= r.generated_at}

\* summarize_all_threads, lines 110-116: the threads without a summary of type
\* 'thread' that have at least min_emails emails.
UnsummarizedThreads(db, summaries, min_emails) ==
    {t \in db.threads :
       /\ t.email_count >= min_emails
       /\ ~\E s \in summaries :
            s.thread_id = t.id /\ s.summary_type = "thread"}

\* ORDER BY t.last_post DESC, line 116, and LIMIT, lines 119-120 (`if limit`:
\* no LIMIT for None or 0): the lists of rows the query may return.  Rows of
\* equal last_post come in any order.
SelectThreads(db, summaries, min_emails, limit) ==
    LET rows == UnsummarizedThreads(db, summaries, min_emails)
        n == Cardinality(rows)
        ordered == {q \in [1..n -> rows] :
                      /\ \A i, j \in 1..n : i # j => q[i] # q[j]
                      /\ \A i, j \in 1..n :
                           i < j => q[i].last_post >= q[j].last_post}
    IN  {IF limit # None /\ limit < n THEN SubSeq(q, 1, limit) ELSE q :
           q \in ordered}

\* summarize_all_threads, lines 143-149 and 159-163: the loop is left after a
\* thread that failed unless skip_errors is set.
BreakAlways(skip_errors) == TRUE
BreakOnError(skip_errors) == ~skip_errors

\* summarize_all_threads, line 144: `summary and not summary.get('error')`.
SummarySucceeded(summary) ==
    /\ summary # NoneDict
    /\ ("error" \in DOMAIN summary => summary.error = "")

\* A _store_summary that replaces the rows of the thread and type.
StoreSummaryReplace(summaries, thread_id, summary_type, summary_data) ==
    {r \in summaries :
       ~(r.thread_id = thread_id /\ r.summary_type = summary_type)}
      \cup {[id |-> LastRowId(summaries),
              thread_id |-> thread_id,
              summary_type |-> summary_type,
              tldr |-> summary_data.tldr,
              llm_model |-> summary_data.llm_model,
              generated_at |-> summary_data.generated_at]}

\* An error check that lets every summary through.
SummaryFailedNever(summary_data) == FALSE

\* summarize_thread, line 79: if summary_data.get('error')
SummaryFailed(summary_data) == summary_data.error # ""

\* _store_summary, lines 443-477: INSERT INTO summaries.
StoreSummary(summaries, thread_id, summary_type, summary_data) ==
    summaries \cup {[id |-> LastRowId(summaries),
                     thread_id |-> thread_id,
                     summary_type |-> summary_type,
                     tldr |-> summary_data.tldr,
                     llm_model |-> summary_data.llm_model,
                     generated_at |-> summary_data.generated_at]}

\* -------------------------------------------------------------------- state

VARIABLES
    emails,         \* table emails: a set of rows
    threads,        \* table threads: a set of rows
    thread_emails,  \* table thread_emails: a set of <<thread_id, email_id>>
    call,           \* the last operation run, its argument, and whether the key
                    \* it was given was already stored
    ret,            \* the value it returned
    exc,            \* the exception it raised ("none": none)
    ncalls,         \* the number of operations run so far
    inserted_ids,   \* the message_ids handed to insert_email so far
    inserted_roots, \* the root_message_ids handed to insert_thread so far
    fault,          \* the write that failed in the last run (NoFault: none)
    source,         \* the file being parsed: its kind and its entries
    parse_pc,       \* the parser: "parse" (before ET.parse), "loop", "done"
    parse_i,        \* the position of the parser's loop in the entries
    parsed,         \* the list `emails` of the parser
    parsed_from,    \* for each email of that list, the entry it was made from
    parse_logged,   \* the number of error lines the parser has printed
    parse_exc,      \* the exception that left the parser ("none": none)
    summaries,      \* table summaries: a set of rows
    cache,          \* the cache directory: cache key -> payload of the file
    client,         \* the GeminiClient of the running program
    now,            \* the clock that datetime.utcnow() reads
    req,            \* the summarization request in progress, or the last one
    nreqs,          \* the number of requests started so far
    limiter,        \* the rate limiter of a client, with the clock it reads
    trunc,          \* _smart_truncate_thread: its argument and its results
    keyed,          \* two member lists and the cache keys made for them
    sweep,          \* summarize_all_threads: its arguments, rows and stats
    tb_emails,      \* ThreadBuilder.emails
    tb_i,           \* build_threads: position of the email being resolved
    tb_walk,        \* _find_thread_root: the walk of that email
    tb_threads      \* build_threads: the defaultdict threads

vars == <<emails, threads, thread_emails, call, ret, exc, ncalls, inserted_ids,
          inserted_roots, fault, source, parse_pc, parse_i, parsed,
          parsed_from, parse_logged, parse_exc,
          summaries, cache, client, now, req, nreqs, limiter, trunc, keyed, sweep,
          tb_emails, tb_i, tb_walk, tb_threads>>

dbvars == <<emails, threads, thread_emails, call, ret, exc, ncalls, inserted_ids,
            inserted_roots, fault>>
tbvars == <<tb_emails, tb_i, tb_walk, tb_threads>>
parservars == <<source, parse_pc, parse_i, parsed, parsed_from, parse_logged,
                parse_exc>>
sumvars == <<summaries, cache, client, now, req, nreqs>>
gemvars == <<limiter, trunc, keyed, sweep>>

\* The database held in the three table variables.
Db == [emails |-> emails, threads |-> threads, thread_emails |-> thread_emails]

NoCall == [op |-> "none", arg |-> <<>>, dup |-> FALSE]
NoWalk == [pc |-> "idle", current_id |-> Empty, visited |-> {}, ret |-> Empty,
           steps |-> 0]

\* Database(db_path) on a new file: the schema is created, the tables are empty.
DbInit ==
    /\ emails = {}
    /\ threads = {}
    /\ thread_emails = {}
    /\ call = NoCall
    /\ ret = None
    /\ exc = "none"
    /\ ncalls = 0
    /\ inserted_ids = {}
    /\ inserted_roots = {}
    /\ fault = NoFault

TbIdle ==
    /\ tb_emails = <<>>
    /\ tb_i = 1
    /\ tb_walk = NoWalk
    /\ tb_threads = EmptyDict

\* No request: the fields of a request before summarize_* is entered.
NoRequest ==
    [pc |-> "idle", caller |-> "none", summary_type |-> "none",
     thread_id |-> 0, force |-> FALSE, content |-> <<>>, prompt |-> <<>>,
     attempts |-> 0, slots |-> 0, calls |-> 0, waits |-> 0, hit |-> FALSE,
     truncated |-> FALSE, last_outcome |-> "none", read_failed |-> FALSE,
     write_failed |-> FALSE, exc |-> "none", email_id |-> 0,
     summary_data |-> NoneDict, ret |-> NoneDict]

\* No summary is stored or cached, and the client of main.py is at hand:
\* GeminiClient(model=model) with the default model.
SumIdle ==
    /\ summaries = {}
    /\ cache = EmptyCache
    /\ client = NewClient("flash", TRUE)
    /\ now = 1
    /\ req = NoRequest
    /\ nreqs = 0

\* A rate limiter with its clock, for a client made at time 0: pc is "idle"
\* between calls of _rate_limit and "sleeping" inside time.sleep; entered and
\* returned count the calls, slept is the length of the last sleep, allowed
\* holds the times at which calls returned, where these are kept.
LimiterOf(model) ==
    [pc |-> "idle", lim |-> NewLimiter(model, 0), clock |-> 0,
     wait_time |-> 0, entered |-> 0, returned |-> 0, slept |-> 0,
     allowed |-> <<>>]

\* No _smart_truncate_thread has been called.
NoTrunc == [pc |-> "idle", thread_emails |-> <<>>, passed |-> <<>>,
            result |-> <<>>, again |-> <<>>]

\* summarize_all_threads has not been called.  selected: the ids of the rows
\* of the query; idx: the position of the loop; started: the ids handed to
\* summarize_thread so far.
NoSweep == [pc |-> "idle", skip_errors |-> TRUE, selected |-> <<>>, idx |-> 0,
            stats |-> [success |-> 0, errors |-> 0, skipped |-> 0],
            started |-> <<>>, failed |-> <<>>]

\* No cache key of a thread has been made.
NoKeys == [pc |-> "idle", members |-> <<>>, others |-> <<>>,
           key |-> <<>>, other_key |-> <<>>]

GemIdle ==
    /\ limiter = LimiterOf("flash")
    /\ trunc = NoTrunc
    /\ keyed = NoKeys
    /\ sweep = NoSweep

\* No file is being parsed.
ParserIdle ==
    /\ source = [kind |-> "none", entries |-> <<>>]
    /\ parse_pc = "done"
    /\ parse_i = 1
    /\ parsed = <<>>
    /\ parsed_from = <<>>
    /\ parse_logged = 0
    /\ parse_exc = "none"

\* ------------------------------------------- ThreadBuilder as a state machine

\* The batches handed to ThreadBuilder: every batch shorter than MaxBatch, and
\* the batches of MaxBatch emails whose References lists are shorter than
\* MaxRefs.
Batches ==
    SeqsUpTo(EmailDicts(MaxId, MaxRefs), MaxBatch - 1)
      \cup [1..MaxBatch -> EmailDicts(MaxId, MaxRefs - 1)]

\* ThreadBuilder(emails) followed by the entry into build_threads: the dict is
\* empty and the walk of the first email, if any, is about to start.
TbInit ==
    /\ tb_emails \in Batches
    /\ tb_i = 1
    /\ tb_walk = IF Len(tb_emails) > 0 THEN WalkStart(tb_emails[1]) ELSE NoWalk
    /\ tb_threads = EmptyDict

\* One pass of the while-loop of _find_thread_root for the current email.
FindRootStep ==
    /\ tb_i <= Len(tb_emails)
    /\ tb_walk.pc = "loop"
    /\ tb_walk' = WalkStep(tb_emails, tb_emails[tb_i], tb_walk)
    /\ UNCHANGED <<tb_emails, tb_i, tb_threads>>
    /\ UNCHANGED <<dbvars, parservars, sumvars, gemvars>>

\* threads[root_id].append(email), and on to the next email of the batch.
AppendToThread ==
    /\ tb_i <= Len(tb_emails)
    /\ tb_walk.pc = "return"
    /\ tb_threads' = DictAppend(tb_threads, tb_walk.ret, tb_emails[tb_i])
    /\ tb_i' = tb_i + 1
    /\ tb_walk' = IF tb_i + 1 <= Len(tb_emails)
                  THEN WalkStart(tb_emails[tb_i + 1]) ELSE NoWalk
    /\ UNCHANGED tb_emails
    /\ UNCHANGED <<dbvars, parservars, sumvars, gemvars>>

\* build_threads has returned dict(threads).
TbDone == tb_i > Len(tb_emails)

SpecThreadBuilderInit == DbInit /\ TbInit /\ ParserIdle /\ SumIdle /\ GemIdle
SpecThreadBuilderNext == FindRootStep \/ AppendToThread
SpecThreadBuilder ==
    SpecThreadBuilderInit /\ [][SpecThreadBuilderNext]_vars
        /\ WF_vars(FindRootStep) /\ WF_vars(AppendToThread)

\* The batches of emails that carry a subject and no References header.
MetaBatches ==
    SeqsUpTo([message_id : 0..MetaMaxId,
              in_reply_to : 0..MetaMaxId,
              references : {<<>>},
              date : Dates,
              from : Senders,
              subject : TaggedSubjects], MetaMaxBatch)

\* build_threads over a batch of emails with subjects, as pipeline.py:57-58
\* runs it before get_thread_metadata.
SpecThreadMetadataInit ==
    /\ DbInit
    /\ ParserIdle
    /\ SumIdle
    /\ GemIdle
    /\ tb_emails \in MetaBatches
    /\ tb_i = 1
    /\ tb_walk = IF Len(tb_emails) > 0 THEN WalkStart(tb_emails[1]) ELSE NoWalk
    /\ tb_threads = EmptyDict
SpecThreadMetadataNext == FindRootStep \/ AppendToThread
SpecThreadMetadata ==
    SpecThreadMetadataInit /\ [][SpecThreadMetadataNext]_vars

\* ------------------------------------------------------ direct Database calls

\* The email dicts handed to insert_email.
DbEmails == EmailDicts(DbMaxId, 0)

\* The thread dicts handed to insert_thread: those of a thread of one
\* participant without a subject, and those of a thread of two participants
\* with a tagged subject.
DbThreadDatas ==
    [root_message_id : 0..DbMaxId,
     subject : Subjects,
     participant_count : {1},
     email_count : 1..DbMaxCount,
     first_post : 0..DbMaxPost,
     last_post : 0..DbMaxPost,
     tags : {<<>>}]
    \cup
    [root_message_id : 0..DbMaxId,
     subject : {PatchFix},
     participant_count : {2},
     email_count : 1..DbMaxCount,
     first_post : 0..DbMaxPost,
     last_post : 0..DbMaxPost,
     tags : {ExtractTags(PatchFix)}]

\* The effect of one Database call with result r on the state.
DbCallDone(op, arg, dup, r) ==
    /\ emails' = r.db.emails
    /\ threads' = r.db.threads
    /\ thread_emails' = r.db.thread_emails
    /\ call' = [op |-> op, arg |-> arg, dup |-> dup]
    /\ ret' = r.ret
    /\ exc' = r.exc
    /\ ncalls' = ncalls + 1
    /\ fault' = NoFault

\* db.insert_email(email_data)
CallInsertEmail ==
    /\ ncalls < MaxCalls
    /\ \E email_data \in DbEmails :
         /\ DbCallDone("insert_email", email_data,
                       EmailsUniqueViolation(emails, email_data.message_id),
                       InsertEmail(Db, email_data))
         /\ inserted_ids' = inserted_ids \cup {email_data.message_id}
    /\ UNCHANGED inserted_roots
    /\ UNCHANGED <<tbvars, parservars, sumvars, gemvars>>

\* db.insert_thread(thread_data)
CallInsertThread ==
    /\ ncalls < MaxCalls
    /\ \E thread_data \in DbThreadDatas :
         /\ DbCallDone("insert_thread", thread_data,
                       ThreadsUniqueViolation(threads, thread_data.root_message_id),
                       InsertThread(Db, thread_data))
         /\ inserted_roots' = inserted_roots \cup {thread_data.root_message_id}
    /\ UNCHANGED inserted_ids
    /\ UNCHANGED <<tbvars, parservars, sumvars, gemvars>>

\* db.link_email_to_thread(thread_id, email_id), with the ids of stored rows.
CallLinkEmailToThread ==
    /\ ncalls < MaxCalls
    /\ \E t \in threads, e \in emails :
         DbCallDone("link_email_to_thread", <<t.id, e.id>>,
                    LinkUniqueViolation(thread_emails, t.id, e.id),
                    LinkEmailToThread(Db, t.id, e.id))
    /\ UNCHANGED <<inserted_ids, inserted_roots>>
    /\ UNCHANGED <<tbvars, parservars, sumvars, gemvars>>

SpecDatabaseInit == DbInit /\ TbIdle /\ ParserIdle /\ SumIdle /\ GemIdle
SpecDatabaseNext == CallInsertEmail \/ CallInsertThread \/ CallLinkEmailToThread
SpecDatabase == SpecDatabaseInit /\ [][SpecDatabaseNext]_vars

\* ------------------------------------------------------------ ingestion runs

\* The archives, as the email lists parse_mbox_file returns: every archive
\* shorter than IngestMaxBatch, and the archives of IngestMaxBatch emails whose
\* References lists are shorter than IngestMaxRefs.
Archives ==
    SeqsUpTo(EmailDicts(IngestMaxId, IngestMaxRefs), IngestMaxBatch - 1)
      \cup [1..IngestMaxBatch -> EmailDicts(IngestMaxId, IngestMaxRefs - 1)]

\* The effect on the state of one run of process_mbox over archive in which
\* the write f fails.
RunFailingDone(archive, f) ==
    LET r == ProcessMboxFailing(Db, archive, f)
    IN  /\ emails' = r.db.emails
        /\ threads' = r.db.threads
        /\ thread_emails' = r.db.thread_emails
        /\ call' = [op |-> "process_mbox", arg |-> archive,
                     dup |-> call.op = "process_mbox" /\ call.arg = archive]
        /\ ret' = r.ret
        /\ exc' = r.exc
        /\ ncalls' = ncalls + 1
        /\ fault' = f
        /\ UNCHANGED <<inserted_ids, inserted_roots>>
        /\ UNCHANGED <<tbvars, parservars, sumvars, gemvars>>

\* The effect of one run of process_mbox over archive on the state.
RunDone(archive) == RunFailingDone(archive, NoFault)

\* pipeline.process_mbox(mbox_path) on an archive, start to end.  An exception
\* out of process_mbox ends the program (main.py:35-38 has try/finally only),
\* so no run follows one that raised.
ProcessMbox ==
    /\ ncalls < MaxRuns
    /\ exc = "none"
    /\ \E archive \in Archives : RunDone(archive)

\* pipeline.process_mbox(mbox_path) once more on the file of the last run.
ReprocessMbox ==
    /\ ncalls = MaxRuns
    /\ call.op = "process_mbox"
    /\ RunDone(call.arg)

SpecPipelineInit == DbInit /\ TbIdle /\ ParserIdle /\ SumIdle /\ GemIdle
SpecPipelineNext == ProcessMbox \/ ReprocessMbox
SpecPipeline == SpecPipelineInit /\ [][SpecPipelineNext]_vars

\* pipeline.process_mbox(mbox_path) on an archive, with one write that fails:
\* the INSERT of one of its emails or of one of its threads.
ProcessMboxWriteFails ==
    /\ ncalls < MaxRuns
    /\ exc = "none"
    /\ \E archive \in Archives :
         \E f \in [table : {"emails"}, at : 1..Len(archive)]
                  \cup [table : {"threads"},
                        at : 1..Len(BuildThreads(archive).keys)] :
           RunFailingDone(archive, f)

\* Ingestion runs, each of which may meet a failing write.
SpecIngestFaultsInit == DbInit /\ TbIdle /\ ParserIdle /\ SumIdle /\ GemIdle
SpecIngestFaultsNext == ProcessMbox \/ ProcessMboxWriteFails
SpecIngestFaults == SpecIngestFaultsInit /\ [][SpecIngestFaultsNext]_vars

\* ---------------------------------------------- parsers as a state machine

\* parse_mbox_file(mbox_path) / parse_atom_file(atom_path) is entered.
ParserInit ==
    /\ source \in Sources
    /\ parse_pc = IF source.kind = "atom" THEN "parse" ELSE "loop"
    /\ parse_i = 1
    /\ parsed = <<>>
    /\ parsed_from = <<>>
    /\ parse_logged = 0
    /\ parse_exc = "none"

\* parse_mbox_file, lines 39-49: one pass of the loop over the mailbox; after
\* the last message the list is returned.
ParseMboxMessage ==
    /\ source.kind = "mbox"
    /\ parse_pc = "loop"
    /\ IF parse_i > Len(source.entries)
       THEN /\ parse_pc' = "done"
            /\ UNCHANGED <<parse_i, parsed, parsed_from, parse_logged>>
       ELSE LET email_data == ParseMessage(source.entries[parse_i])
            IN  /\ parse_i' = parse_i + 1
                /\ IF email_data.exc = "none"
                   THEN /\ parsed' = Append(parsed, email_data.ret)
                        /\ parsed_from' = Append(parsed_from, parse_i)
                        /\ UNCHANGED parse_logged
                   ELSE \* except Exception as e: print(...); continue
                        /\ parse_logged' = parse_logged + 1
                        /\ UNCHANGED <<parsed, parsed_from>>
                /\ UNCHANGED parse_pc
    /\ UNCHANGED <<source, parse_exc>>
    /\ UNCHANGED <<dbvars, tbvars, sumvars, gemvars>>

\* parse_atom_file, lines 25-31: ET.parse reads the whole document and raises
\* ParseError if any part of it is not well-formed.
ParseAtomDocument ==
    /\ source.kind = "atom"
    /\ parse_pc = "parse"
    /\ IF \E i \in 1..Len(source.entries) : ~source.entries[i].well_formed
       THEN parse_pc' = "done" /\ parse_exc' = "ParseError"
       ELSE parse_pc' = "loop" /\ UNCHANGED parse_exc
    /\ UNCHANGED <<source, parse_i, parsed, parsed_from, parse_logged>>
    /\ UNCHANGED <<dbvars, tbvars, sumvars, gemvars>>

\* parse_atom_file, lines 33-39: one pass of the loop over the entries (the
\* dict _parse_entry returns is never empty, so it is always appended); after
\* the last entry the list is returned.
ParseAtomEntry ==
    /\ source.kind = "atom"
    /\ parse_pc = "loop"
    /\ IF parse_i > Len(source.entries)
       THEN /\ parse_pc' = "done"
            /\ UNCHANGED <<parse_i, parsed, parsed_from>>
       ELSE /\ parse_i' = parse_i + 1
            /\ parsed' = Append(parsed, ParseEntry(source.entries[parse_i]))
            /\ parsed_from' = Append(parsed_from, parse_i)
            /\ UNCHANGED parse_pc
    /\ UNCHANGED <<source, parse_logged, parse_exc>>
    /\ UNCHANGED <<dbvars, tbvars, sumvars, gemvars>>

SpecParsersInit == DbInit /\ TbIdle /\ ParserInit /\ SumIdle /\ GemIdle
SpecParsersNext == ParseMboxMessage \/ ParseAtomDocument \/ ParseAtomEntry
SpecParsers == SpecParsersInit /\ [][SpecParsersNext]_vars

\* ------------------------------------------ summarization as a state machine

\* An email without Date, From, Subject and References headers.
Mail(message_id, in_reply_to) ==
    [message_id |-> message_id, in_reply_to |-> in_reply_to,
     references |-> <<>>, date |-> Empty, from |-> Empty, subject |-> <<>>]

\* The archives ingested before the summarizer runs: two emails, the second a
\* reply to the first (one thread) or not (two threads).
SumArchives == {<<Mail(1, Empty), Mail(2, parent)>> : parent \in {Empty, 1}}

\* The ids handed to summarize_thread.
ThreadIds == 1..IngestMaxBatch

\* The requests made of the client directly: summarize_email(email) and
\* generate_daily_digest(threads_data, date), with the string their cache key
\* is made of (body + subject, "date:len(threads_data)") as a sequence of
\* pieces.
ClientRequests ==
    {[summary_type |-> "email", content |-> <<1>>],
     [summary_type |-> "daily", content |-> <<1, 1>>]}

\* main.py:270-271: the database of an earlier ingestion is opened and
\* LKMLSummarizer(db, GeminiClient(model=model)) is made; the cache directory
\* and the table summaries are empty.
SummarizerInitOn(archives) ==
    /\ \E archive \in archives :
         LET db == ProcessMboxOn(EmptyDb, archive).db
         IN  /\ emails = db.emails
             /\ threads = db.threads
             /\ thread_emails = db.thread_emails
    /\ call = NoCall
    /\ ret = None
    /\ exc = "none"
    /\ ncalls = 0
    /\ inserted_ids = {}
    /\ inserted_roots = {}
    /\ fault = NoFault
    /\ summaries = {}
    /\ cache = EmptyCache
    /\ client \in {NewClient(model, enable_cache) :
                     model \in Models, enable_cache \in BOOLEAN}
    /\ now = 1
    /\ req = NoRequest
    /\ nreqs = 0

SummarizerInit == SummarizerInitOn(SumArchives)

\* The program is run again with another model or cache setting: a new
\* GeminiClient over the same database and cache directory.
NewClientSession ==
    /\ req.pc \in {"idle", "done"}
    /\ nreqs < MaxRequests
    /\ \E model \in Models, enable_cache \in BOOLEAN :
         /\ NewClient(model, enable_cache) # client
         /\ client' = NewClient(model, enable_cache)
    /\ UNCHANGED <<summaries, cache, now, req, nreqs>>
    /\ UNCHANGED <<dbvars, tbvars, parservars, gemvars>>

\* The value data goes back to the caller of the client: for a request made of
\* the client directly the request is over.
Return(r, data) ==
    IF r.caller = "client"
    THEN [r EXCEPT !.pc = "done", !.summary_data = data, !.ret = data]
    ELSE [r EXCEPT !.pc = "returned", !.summary_data = data]

\* LKMLSummarizer.summarize_thread(thread_id, force), lines 37-72: up to the
\* call of self.gemini.summarize_thread.
EnterSummarizeThread(thread_id, force) ==
    LET r == [NoRequest EXCEPT !.caller = "summarizer",
                               !.summary_type = "thread",
                               !.thread_id = thread_id,
                               !.force = force]
        existing == GetExistingSummary(summaries, thread_id, "thread")
        rows == ThreadEmailRows(Db, thread_id)
    IN  IF ~force /\ existing # {}
        THEN \E row \in existing :
               req' = [r EXCEPT !.pc = "done", !.ret = row]
        ELSE IF ~\E t \in threads : t.id = thread_id
        THEN req' = [r EXCEPT !.pc = "done", !.ret = NoneDict]
        ELSE IF rows = <<>>
        THEN req' = [r EXCEPT !.pc = "done", !.ret = NoneDict]
        ELSE req' = [r EXCEPT !.pc = "check_cache",
                              !.content = ThreadKey(rows)]

\* summarize_thread is called with a thread id and a force flag.
StartSummarizeThread ==
    /\ req.pc \in {"idle", "done"}
    /\ nreqs < MaxRequests
    /\ nreqs' = nreqs + 1
    /\ \E thread_id \in ThreadIds, force \in BOOLEAN :
         EnterSummarizeThread(thread_id, force)
    /\ UNCHANGED <<summaries, cache, client, now>>
    /\ UNCHANGED <<dbvars, tbvars, parservars, gemvars>>

\* GeminiClient.summarize_email(email) or generate_daily_digest(threads_data,
\* date) is entered.
StartClientRequest ==
    /\ req.pc \in {"idle", "done"}
    /\ nreqs < MaxRequests
    /\ nreqs' = nreqs + 1
    /\ \E request \in ClientRequests :
         req' = [NoRequest EXCEPT !.pc = "check_cache",
                                  !.caller = "client",
                                  !.summary_type = request.summary_type,
                                  !.content = request.content]
    /\ UNCHANGED <<summaries, cache, client, now>>
    /\ UNCHANGED <<dbvars, tbvars, parservars, gemvars>>

\* summarize_*, the cache check (lines 243-249, 295-299, 349-352) when the
\* read of the cache file fails.  The check is outside the try block of summarize_*: an exception
\* of _get_from_cache would leave the method.
CheckCacheReadFails ==
    /\ req.pc = "check_cache"
    /\ client.enable_cache
    /\ GetCacheKey(client, req.content, req.summary_type) \in DOMAIN cache
    /\ \E io \in ReadFaults :
         LET cache_key == GetCacheKey(client, req.content, req.summary_type)
             cached == GetFromCacheIO(client, cache, cache_key, io)
             r == [req EXCEPT !.read_failed = TRUE]
         IN  /\ client' = cached.client
             /\ req' = IF cached.exc # "none"
                       THEN [r EXCEPT !.pc = "done", !.exc = cached.exc]
                       ELSE IF cached.ret # NoneDict
                       THEN Return([r EXCEPT !.hit = TRUE], cached.ret)
                       ELSE [r EXCEPT !.pc = "truncate"]
    /\ UNCHANGED <<summaries, cache, now, nreqs>>
    /\ UNCHANGED <<dbvars, tbvars, parservars, gemvars>>

\* summarize_*, the cache check (lines 243-249, 295-299, 349-352).
CheckCache ==
    /\ req.pc = "check_cache"
    /\ LET cache_key == GetCacheKey(client, req.content, req.summary_type)
           cached == GetFromCache(client, cache, cache_key)
       IN  /\ client' = cached.client
           /\ req' = IF cached.ret # NoneDict               \* if cached:
                     THEN Return([req EXCEPT !.hit = TRUE], cached.ret)
                     ELSE [req EXCEPT !.pc = "truncate"]
    /\ UNCHANGED <<summaries, cache, now, nreqs>>
    /\ UNCHANGED <<dbvars, tbvars, parservars, gemvars>>

\* summarize_*, after a miss: the content is cut to size and the prompt is
\* built (lines 251, 302-304, 354).
TruncateContent ==
    /\ req.pc = "truncate"
    /\ req' = [req EXCEPT
                 !.pc = "call",
                 !.truncated = TRUE,
                 !.prompt =
                    IF req.summary_type = "thread"
                    THEN ThreadKey(SmartTruncateThread(
                                     ThreadEmailRows(Db, req.thread_id)))
                    ELSE req.content]
    /\ UNCHANGED <<summaries, cache, client, now, nreqs>>
    /\ UNCHANGED <<dbvars, tbvars, parservars, gemvars>>

\* What summarize_* does with an exception of its try block (lines 273-280,
\* 327-334, 374-381): it returns the error summary, or the exception leaves
\* the method.
Handled(r, c, exception, error, generated_at) ==
    IF Caught(exception)
    THEN Return(r, ErrorSummary(c, r.summary_type, error, generated_at))
    ELSE [r EXCEPT !.pc = "done", !.exc = exception]

\* One attempt of _generate_content_with_retry (lines 188-216) and what
\* follows it in summarize_*.  After an answer the result dict is built, saved
\* to the cache (io: how the write of the file goes) and returned; an answer
\* that is no JSON object raises in the building of the dict.  After a failed
\* attempt the retry policy waits and calls again, or stops: tenacity raises
\* RetryError after the last attempt, and the exception of the provider
\* itself for one that is not retried.
GenerateContentAttemptWith(outcomes, io) ==
    /\ req.pc = "call"
    /\ \E outcome \in outcomes, expired \in BOOLEAN :
         LET called == [RateLimit(client, expired).client
                          EXCEPT !.metrics.api_calls = @ + 1]
             failed == [called EXCEPT !.metrics.errors = @ + 1]
             r == [req EXCEPT !.slots = @ + 1, !.calls = @ + 1,
                              !.attempts = @ + 1, !.last_outcome = outcome]
             cache_key == GetCacheKey(client, req.content, req.summary_type)
             result == IF req.summary_type = "email"
                       THEN EmailSummaryResult(called, req.email_id,
                                               ResponseTldr(outcome), now)
                       ELSE SummaryResult(called, req.summary_type,
                                          ResponseTldr(outcome), now)
         IN  IF outcome \in ErrorKinds
             THEN IF Retried(outcome) /\ ~StopAfterAttempt(r.attempts)
                  THEN /\ client' = failed
                       /\ req' = [r EXCEPT !.waits = @ + 1]
                       /\ UNCHANGED <<cache, now>>
                  ELSE /\ client' = failed
                       /\ now' = now + 1
                       /\ req' = Handled(r, failed, "RetryError",
                                         IF Retried(outcome)
                                         THEN RetryErrorStr ELSE outcome,
                                         now)
                       /\ UNCHANGED cache
             ELSE IF BuildResultExc(outcome) # "none"
             THEN /\ client' = called
                  /\ now' = now + 1
                  /\ req' = Handled(r, called, BuildResultExc(outcome),
                                    BuildResultExc(outcome), now)
                  /\ UNCHANGED cache
             ELSE /\ client' = called
                  /\ cache' = IF io = "ok"
                              THEN SaveToCache(called, cache, cache_key,
                                               result)
                              ELSE SaveToCacheIO(called, cache, cache_key,
                                                 result, io)
                  /\ now' = now + 1
                  /\ req' = Return([r EXCEPT !.write_failed =
                                               (io # "ok"
                                                  /\ called.enable_cache)],
                                   result)
    /\ UNCHANGED <<summaries, nreqs>>
    /\ UNCHANGED <<dbvars, tbvars, parservars, gemvars>>

\* The attempt with a provider that answers in JSON or in other text or fails
\* for a while, and a cache file that is written without failure.
GenerateContentAttempt == GenerateContentAttemptWith(BasicOutcomes, "ok")

\* LKMLSummarizer.summarize_thread, lines 78-87: the error check, the INSERT
\* of the summary and the return.
StoreAndReturn ==
    /\ req.pc = "returned"
    /\ IF SummaryFailed(req.summary_data)
       THEN /\ req' = [req EXCEPT !.pc = "done", !.ret = NoneDict]
            /\ UNCHANGED summaries
       ELSE /\ summaries' = StoreSummary(summaries, req.thread_id, "thread",
                                         req.summary_data)
            /\ req' = [req EXCEPT !.pc = "done", !.ret = req.summary_data]
    /\ UNCHANGED <<cache, client, now, nreqs>>
    /\ UNCHANGED <<dbvars, tbvars, parservars, gemvars>>

SpecSummarizerInit == SummarizerInit /\ TbIdle /\ ParserIdle /\ GemIdle
SpecSummarizerNext ==
    \/ NewClientSession
    \/ StartSummarizeThread
    \/ StartClientRequest
    \/ CheckCache
    \/ TruncateContent
    \/ GenerateContentAttempt
    \/ StoreAndReturn
SpecSummarizer == SpecSummarizerInit /\ [][SpecSummarizerNext]_vars

\* ------------------------------------------------------ summarize_all_threads

\* The archives ingested before summarize_all_threads runs: three emails, the
\* second and the third a reply to the first or not.
SweepArchives ==
    {<<Mail(1, Empty), Mail(2, second), Mail(3, third)>> :
       second \in {Empty, 1}, third \in {Empty, 1}}

\* The arguments of summarize_all_threads: min_emails (default 2) and limit
\* (default None).
SweepMinEmails == {1, 2}
SweepLimits == {None, 2}

\* summarize_all_threads(limit, min_emails, skip_errors), lines 107-133: the
\* query and the stats dict.
SummarizeAllThreadsStart ==
    /\ sweep.pc = "idle"
    /\ \E skip_errors \in BOOLEAN, min_emails \in SweepMinEmails,
          limit \in SweepLimits :
         \E rows \in SelectThreads(Db, summaries, min_emails, limit) :
           sweep' = [NoSweep EXCEPT
                       !.pc = "loop",
                       !.skip_errors = skip_errors,
                       !.selected = [i \in 1..Len(rows) |-> rows[i].id],
                       !.idx = 1]
    /\ UNCHANGED <<dbvars, tbvars, parservars, sumvars>>
    /\ UNCHANGED <<limiter, trunc, keyed>>

\* The loop, lines 135-141: the next row is taken and summarize_thread is
\* called with its id (force is False by default).
SweepStartThread ==
    /\ sweep.pc = "loop"
    /\ sweep.idx <= Len(sweep.selected)
    /\ EnterSummarizeThread(sweep.selected[sweep.idx], FALSE)
    /\ sweep' = [sweep EXCEPT
                   !.pc = "summarize_thread",
                   !.started = Append(@, sweep.selected[sweep.idx])]
    /\ UNCHANGED <<summaries, cache, client, now, nreqs>>
    /\ UNCHANGED <<dbvars, tbvars, parservars>>
    /\ UNCHANGED <<limiter, trunc, keyed>>

\* The loop, lines 142-163, when summarize_thread has returned or raised: the
\* thread is counted as a success or as an error, and an error ends the loop
\* unless skip_errors is set.
SweepCount ==
    /\ sweep.pc = "summarize_thread"
    /\ req.pc = "done"
    /\ LET thread_id == sweep.selected[sweep.idx]
           ok == req.exc = "none" /\ SummarySucceeded(req.ret)
       IN  sweep' =
             IF ok
             THEN [sweep EXCEPT !.pc = "loop", !.idx = @ + 1,
                                !.stats.success = @ + 1]
             ELSE [sweep EXCEPT
                     !.pc = IF BreakOnError(sweep.skip_errors)
                            THEN "returned" ELSE "loop",
                     !.idx = @ + 1,
                     !.stats.errors = @ + 1,
                     !.failed = Append(@, thread_id)]
    /\ UNCHANGED <<dbvars, tbvars, parservars, sumvars>>
    /\ UNCHANGED <<limiter, trunc, keyed>>

\* The loop is over, lines 165-173: the stats are returned.
SweepReturn ==
    /\ sweep.pc = "loop"
    /\ sweep.idx > Len(sweep.selected)
    /\ sweep' = [sweep EXCEPT !.pc = "returned"]
    /\ UNCHANGED <<dbvars, tbvars, parservars, sumvars>>
    /\ UNCHANGED <<limiter, trunc, keyed>>

SpecSummarizeAllInit ==
    /\ SummarizerInitOn(SweepArchives) /\ TbIdle /\ ParserIdle /\ GemIdle
SpecSummarizeAllNext ==
    \/ SummarizeAllThreadsStart
    \/ SweepStartThread
    \/ CheckCache
    \/ TruncateContent
    \/ GenerateContentAttempt
    \/ StoreAndReturn
    \/ SweepCount
    \/ SweepReturn
SpecSummarizeAll == SpecSummarizeAllInit /\ [][SpecSummarizeAllNext]_vars

\* The emails handed to summarize_email: an identity, and the text of body
\* and subject the cache key is made of.
SummarizedEmails == [message_id : 1..MaxEmailId, content : {<<1>>, <<2>>}]

\* GeminiClient.summarize_email(email) is entered (lines 242-246).
StartSummarizeEmail ==
    /\ req.pc \in {"idle", "done"}
    /\ nreqs < MaxRequests
    /\ nreqs' = nreqs + 1
    /\ \E email \in SummarizedEmails :
         req' = [NoRequest EXCEPT !.pc = "check_cache",
                                  !.caller = "client",
                                  !.summary_type = "email",
                                  !.content = email.content,
                                  !.email_id = email.message_id]
    /\ UNCHANGED <<summaries, cache, client, now>>
    /\ UNCHANGED <<dbvars, tbvars, parservars, gemvars>>

\* The summarize_email requests of one client of the default model.
SpecEmailSummariesInit ==
    /\ SummarizerInit /\ TbIdle /\ ParserIdle /\ GemIdle
    /\ client.model_name = ModelName("flash")
SpecEmailSummariesNext ==
    \/ StartSummarizeEmail
    \/ CheckCache
    \/ TruncateContent
    \/ GenerateContentAttempt
SpecEmailSummaries == SpecEmailSummariesInit /\ [][SpecEmailSummariesNext]_vars

\* The attempt with a cache file whose write fails.
GenerateContentAttemptWriteFails ==
    \E io \in WriteFaults : GenerateContentAttemptWith(BasicOutcomes, io)

\* The summarize_email and generate_daily_digest requests of a client with a
\* cache directory whose files cannot always be read or written.
SpecCacheFaultsInit ==
    /\ SummarizerInit /\ TbIdle /\ ParserIdle /\ GemIdle
    /\ client = NewClient("flash", TRUE)
SpecCacheFaultsNext ==
    \/ StartClientRequest
    \/ CheckCache
    \/ CheckCacheReadFails
    \/ TruncateContent
    \/ GenerateContentAttempt
    \/ GenerateContentAttemptWriteFails
SpecCacheFaults == SpecCacheFaultsInit /\ [][SpecCacheFaultsNext]_vars

\* The replies to email 1 that later archives bring.
ReplyIds == (IngestMaxBatch + 1)..MaxReplyId

\* pipeline.process_mbox on a later archive that holds the root of thread 1
\* once more and a new reply to it, run between two summarization requests.
ProcessMboxWithReply ==
    /\ req.pc \in {"idle", "done"}
    /\ \E reply \in ReplyIds :
         /\ ~\E e \in emails : e.message_id = reply
         /\ RunDone(<<Mail(1, Empty), Mail(reply, 1)>>)

\* Summaries of a thread that grows between the requests: the archive of two
\* emails in one thread is stored, the client has the default model and its
\* cache.
SpecThreadGrowthInit ==
    /\ SummarizerInit /\ TbIdle /\ ParserIdle /\ GemIdle
    /\ client = NewClient("flash", TRUE)
    /\ Cardinality(threads) = 1
SpecThreadGrowthNext ==
    \/ ProcessMboxWithReply
    \/ StartSummarizeThread
    \/ CheckCache
    \/ TruncateContent
    \/ GenerateContentAttempt
    \/ StoreAndReturn
SpecThreadGrowth == SpecThreadGrowthInit /\ [][SpecThreadGrowthNext]_vars

\* The attempt with a provider of every outcome: its failures are of each
\* kind and its answers may hold JSON that is no object.
ProviderAttempt == GenerateContentAttemptWith(ProviderOutcomes, "ok")

\* The requests of one client of the default model against such a provider.
SpecProviderInit ==
    /\ SummarizerInit /\ TbIdle /\ ParserIdle /\ GemIdle
    /\ client.model_name = ModelName("flash")
SpecProviderNext ==
    \/ StartSummarizeThread
    \/ StartClientRequest
    \/ CheckCache
    \/ TruncateContent
    \/ ProviderAttempt
    \/ StoreAndReturn
SpecProvider == SpecProviderInit /\ [][SpecProviderNext]_vars

\* -------------------------------- _smart_truncate_thread as a state machine

\* A thread is at hand and _smart_truncate_thread has not been called.
TruncInit ==
    /\ limiter = LimiterOf("flash")
    /\ keyed = NoKeys
    /\ sweep = NoSweep
    /\ trunc \in {[NoTrunc EXCEPT !.pc = "ready", !.thread_emails = t,
                                  !.passed = t] : t \in TruncThreads}

\* self._smart_truncate_thread(thread_emails), lines 383-417.
SmartTruncateCall ==
    /\ trunc.pc = "ready"
    /\ trunc' = [trunc EXCEPT
                   !.pc = "once",
                   !.result = SmartTruncateThread(trunc.passed),
                   !.passed = ArgumentAfter(trunc.passed)]
    /\ UNCHANGED <<limiter, keyed, sweep>>
    /\ UNCHANGED <<dbvars, tbvars, parservars, sumvars>>

\* The call is made once more with the same list object.
SmartTruncateCallAgain ==
    /\ trunc.pc = "once"
    /\ trunc' = [trunc EXCEPT
                   !.pc = "twice",
                   !.again = SmartTruncateThread(trunc.passed),
                   !.passed = ArgumentAfter(trunc.passed)]
    /\ UNCHANGED <<limiter, keyed, sweep>>
    /\ UNCHANGED <<dbvars, tbvars, parservars, sumvars>>

SpecTruncateInit == DbInit /\ TbIdle /\ ParserIdle /\ SumIdle /\ TruncInit
SpecTruncateNext == SmartTruncateCall \/ SmartTruncateCallAgain
SpecTruncate == SpecTruncateInit /\ [][SpecTruncateNext]_vars

\* ----------------------------------- the cache key of summarize_thread

\* Two threads are at hand, and no key has been made.
KeysInit ==
    /\ limiter = LimiterOf("flash")
    /\ trunc = NoTrunc
    /\ keyed \in {[NoKeys EXCEPT !.pc = "ready", !.members = a,
                                 !.others = b] :
                    a \in MemberLists, b \in MemberLists}
    /\ sweep = NoSweep

\* summarize_thread, lines 294-296: thread_key and cache_key of one thread.
MakeThreadKey ==
    /\ keyed.pc = "ready"
    /\ keyed' = [keyed EXCEPT
                   !.pc = "one",
                   !.key = GetCacheKey(client, JoinIds(keyed.members),
                                       "thread")]
    /\ UNCHANGED <<limiter, trunc, sweep>>
    /\ UNCHANGED <<dbvars, tbvars, parservars, sumvars>>

\* The same lines for the other thread, with the same client.
MakeOtherThreadKey ==
    /\ keyed.pc = "one"
    /\ keyed' = [keyed EXCEPT
                   !.pc = "both",
                   !.other_key = GetCacheKey(client, JoinIds(keyed.others),
                                             "thread")]
    /\ UNCHANGED <<limiter, trunc, sweep>>
    /\ UNCHANGED <<dbvars, tbvars, parservars, sumvars>>

SpecThreadKeysInit == DbInit /\ TbIdle /\ ParserIdle /\ SumIdle /\ KeysInit
SpecThreadKeysNext == MakeThreadKey \/ MakeOtherThreadKey
SpecThreadKeys == SpecThreadKeysInit /\ [][SpecThreadKeysNext]_vars

\* ------------------------------------------- _rate_limit as a state machine

ClockSteps == {-30, 20, 60}

LimiterInit ==
    /\ limiter \in {LimiterOf(model) : model \in Models}
    /\ trunc = NoTrunc
    /\ keyed = NoKeys
    /\ sweep = NoSweep

\* Time passes, or the wall clock is adjusted, between two calls.
ClockAdvance ==
    /\ limiter.pc = "idle"
    /\ \E d \in ClockSteps :
         /\ limiter.clock + d \in 0..MaxClock
         /\ limiter' = [limiter EXCEPT !.clock = @ + d]
    /\ UNCHANGED <<trunc, keyed, sweep>>
    /\ UNCHANGED <<dbvars, tbvars, parservars, sumvars>>

\* _rate_limit, lines 120-138, up to time.sleep or, without it, to the end;
\* logged: the time of the return is kept.
RateLimitCallWith(logged) ==
    /\ limiter.pc = "idle"
    /\ limiter.entered < MaxLimiterCalls
    /\ LET current_time == limiter.clock
           lim == WindowReset(limiter.lim, current_time)
       IN  IF MustSleep(lim, current_time)
           THEN limiter' = [limiter EXCEPT
                              !.pc = "sleeping",
                              !.lim = lim,
                              !.wait_time = WaitTime(lim, current_time),
                              !.entered = @ + 1]
           ELSE limiter' = [limiter EXCEPT
                              !.lim = Counted(lim),
                              !.entered = @ + 1,
                              !.returned = @ + 1,
                              !.allowed = IF logged
                                          THEN Append(@, current_time)
                                          ELSE @]
    /\ UNCHANGED <<trunc, keyed, sweep>>
    /\ UNCHANGED <<dbvars, tbvars, parservars, sumvars>>

RateLimitCall == RateLimitCallWith(FALSE)

\* _rate_limit, lines 134-138: time.sleep(wait_time) returns after wait_time
\* seconds or later, the window is started again at time.time() and the call
\* is counted.
RateLimitWakeWith(logged) ==
    /\ limiter.pc = "sleeping"
    /\ \E late \in {0, 1} :
         LET woken == limiter.clock + limiter.wait_time + late
         IN  limiter' = [limiter EXCEPT
                           !.pc = "idle",
                           !.clock = woken,
                           !.lim = Counted(AfterSleep(limiter.lim, woken)),
                           !.slept = woken - limiter.clock,
                           !.returned = @ + 1,
                           !.allowed = IF logged THEN Append(@, woken)
                                       ELSE @]
    /\ UNCHANGED <<trunc, keyed, sweep>>
    /\ UNCHANGED <<dbvars, tbvars, parservars, sumvars>>

RateLimitWake == RateLimitWakeWith(FALSE)

SpecRateLimiterInit ==
    DbInit /\ TbIdle /\ ParserIdle /\ SumIdle /\ LimiterInit
SpecRateLimiterNext == ClockAdvance \/ RateLimitCall \/ RateLimitWake
\* time.sleep returns: a sleeping call is woken.
SpecRateLimiter ==
    SpecRateLimiterInit /\ [][SpecRateLimiterNext]_vars
      /\ WF_vars(RateLimitWake)

\* The calls of the limiter of a 'pro' client, with the times at which they
\* return kept.
RateLimitCallLogged ==
    /\ Len(limiter.allowed) < MaxLoggedCalls
    /\ RateLimitCallWith(TRUE)

RateLimitWakeLogged == RateLimitWakeWith(TRUE)

SpecRollingWindowInit ==
    /\ DbInit /\ TbIdle /\ ParserIdle /\ SumIdle
    /\ limiter = LimiterOf("pro")
    /\ trunc = NoTrunc
    /\ keyed = NoKeys
    /\ sweep = NoSweep
SpecRollingWindowNext ==
    ClockAdvance \/ RateLimitCallLogged \/ RateLimitWakeLogged
SpecRollingWindow ==
    SpecRollingWindowInit /\ [][SpecRollingWindowNext]_vars

\* ------------------------------------------------- claims on ThreadBuilder

Range(seq) == {seq[i] : i \in 1..Len(seq)}

\* How often e occurs in seq.
Count(seq, e) == Cardinality({i \in 1..Len(seq) : seq[i] = e})

\* The places of the dict d that hold e: <<k, j>> is the j-th member of the
\* k-th thread.
MemberSlots(d, e) ==
    {s \in UNION {{<<k, j>> : j \in 1..Len(d.val[d.keys[k]])} :
                    k \in 1..Len(d.keys)} :
       d.val[d.keys[s[1]]][s[2]] = e}

\* The threads of a dict as a set: each root identity with the set of its members.
Partition(d) == {<<d.keys[k], Range(d.val[d.keys[k]])>> : k \in 1..Len(d.keys)}

DistinctIds(batch) ==
    \A i, j \in 1..Len(batch) : batch[i].message_id = batch[j].message_id => i = j

\* The orderings of a batch.
Orderings(batch) ==
    {[i \in 1..Len(batch) |-> batch[f[i]]] :
        f \in {g \in [1..Len(batch) -> 1..Len(batch)] :
                 \A a, b \in 1..Len(batch) : g[a] = g[b] => a = b}}

\* C6: in a batch holding an email A that replies to B and an email B that
\* replies to A, build_threads puts A and B into the same thread.
C6_TwoCycleSameThread ==
    TbDone =>
      \A i, j \in 1..Len(tb_emails) :
        (/\ tb_emails[i].message_id # Empty
         /\ tb_emails[j].message_id # Empty
         /\ tb_emails[i].message_id # tb_emails[j].message_id
         /\ tb_emails[i].in_reply_to = tb_emails[j].message_id
         /\ tb_emails[j].in_reply_to = tb_emails[i].message_id)
        => \E k \in 1..Len(tb_threads.keys) :
             /\ tb_emails[i] \in Range(tb_threads.val[tb_threads.keys[k]])
             /\ tb_emails[j] \in Range(tb_threads.val[tb_threads.keys[k]])

\* C7: the walk of _find_thread_root ends after visiting at most as many emails
\* as the batch holds: every pass through its loop either returns or visits
\* one more email, and no walk has visited more emails than the batch holds.
C7_WalkTerminatesWithinBatch ==
    /\ [][FindRootStep =>
            \/ tb_walk'.pc = "return"
            \/ tb_walk'.steps = tb_walk.steps + 1]_vars
    /\ [](tb_walk.steps <= Len(tb_emails))

\* A walk around a cycle through every email of a batch of MaxBatch emails has
\* returned: it is back at an identity it visited.
C7_Witness ==
    /\ Len(tb_emails) = MaxBatch
    /\ tb_walk.pc = "return"
    /\ tb_walk.steps = MaxBatch
    /\ tb_walk.ret \in tb_walk.visited
    /\ EmailMapGet(tb_emails, tb_walk.ret).in_reply_to \in EmailMapKeys(tb_emails)
    /\ EmailMapGet(tb_emails, tb_walk.ret).in_reply_to # tb_walk.ret

\* C8: for a batch of pairwise distinct message_ids, every ordering of the
\* batch yields the same roots and the same members of each root.
C8_OrderIndependent ==
    (TbDone /\ DistinctIds(tb_emails)) =>
      \A p \in Orderings(tb_emails) :
        Partition(BuildThreads(p)) = Partition(tb_threads)

\* A batch of MaxBatch distinct emails has been partitioned into two threads,
\* one of them with two members, resolved against an email later in the batch.
C8_Witness ==
    /\ TbDone
    /\ DistinctIds(tb_emails)
    /\ Len(tb_emails) = MaxBatch
    /\ Len(tb_threads.keys) = 2
    /\ tb_emails[1].in_reply_to = tb_emails[MaxBatch].message_id
    /\ tb_emails[1].message_id # Empty
    /\ tb_emails[MaxBatch].message_id # Empty

\* C9: build_threads returns a partition of the batch: every email of the
\* batch is a member of exactly one thread, as often as it is in the batch,
\* and no thread has a member that is not in the batch; meanwhile the threads
\* hold exactly the emails resolved so far.
C9_Partition ==
    LET done == SubSeq(tb_emails, 1, tb_i - 1)
        Members(k) == tb_threads.val[tb_threads.keys[k]]
        all == Range(tb_emails)
                 \cup UNION {Range(Members(k)) : k \in 1..Len(tb_threads.keys)}
    IN  /\ \A k1, k2 \in 1..Len(tb_threads.keys) :
              tb_threads.keys[k1] = tb_threads.keys[k2] => k1 = k2
        /\ DOMAIN tb_threads.val = Range(tb_threads.keys)
        /\ \A e \in all : Cardinality(MemberSlots(tb_threads, e)) = Count(done, e)

\* A batch of MaxBatch emails, one of them twice, has been split into two
\* threads.
C9_Witness ==
    /\ TbDone
    /\ Len(tb_emails) = MaxBatch
    /\ Len(tb_threads.keys) = 2
    /\ tb_emails[1] = tb_emails[MaxBatch]
    /\ \E k \in 1..2 : Len(tb_threads.val[tb_threads.keys[k]]) = 2

\* The parent of the indexed email id as C10 states it: its in_reply_to if
\* that is in the index, otherwise the first of its references that is in the
\* index, otherwise none (Empty).
StatedParent(batch, id) ==
    LET e == EmailMapGet(batch, id)
        indexed == {r \in 1..Len(e.references) :
                      e.references[r] \in EmailMapKeys(batch)}
    IN  IF e.in_reply_to # Empty /\ e.in_reply_to \in EmailMapKeys(batch)
        THEN e.in_reply_to
        ELSE IF indexed # {} THEN e.references[Min(indexed)]
        ELSE Empty

\* The walk along StatedParent from id: the email it ends at, and whether it
\* came back to an email it had seen.
RECURSIVE StatedWalk(_, _, _)
StatedWalk(batch, id, seen) ==
    LET parent == StatedParent(batch, id)
    IN  IF parent = Empty THEN [root |-> id, cyclic |-> FALSE]
        ELSE IF parent \in seen \cup {id} THEN [root |-> id, cyclic |-> TRUE]
        ELSE StatedWalk(batch, parent, seen \cup {id})

\* C10: the root _find_thread_root returns for an email is the email the walk
\* along the stated parents ends at (where that walk meets no cycle): the
\* walk continues from each parent, and only an email without a parent is
\* returned.
C10_RootIsEndOfParentWalk ==
    (/\ tb_i <= Len(tb_emails)
     /\ tb_walk.pc = "return"
     /\ tb_emails[tb_i].message_id # Empty
     /\ ~StatedWalk(tb_emails, tb_emails[tb_i].message_id, {}).cyclic)
    => tb_walk.ret = StatedWalk(tb_emails, tb_emails[tb_i].message_id, {}).root

\* The identities the walk from w visits, in the order of their visited.add,
\* appended to order.
RECURSIVE WalkOrder(_, _, _, _)
WalkOrder(batch, email, w, order) ==
    IF w.pc = "return" THEN order
    ELSE LET n == WalkStep(batch, email, w)
         IN  WalkOrder(batch, email, n,
                       IF n.steps > w.steps THEN Append(order, w.current_id)
                       ELSE order)

\* The walk of email has ended on a repeat: the last email it visited is in
\* the index and names an indexed parent, so the loop went on to that parent
\* and found it in visited.
EndsOnRepeat(batch, email) ==
    LET order == WalkOrder(batch, email, WalkStart(email), <<>>)
    IN  /\ Len(order) > 0
        /\ order[Len(order)] \in EmailMapKeys(batch)
        /\ LET parent_id == EmailMapGet(batch, order[Len(order)]).in_reply_to
           IN  parent_id # Empty /\ parent_id \in EmailMapKeys(batch)

\* C11: when the walk from an email reaches an identity it has visited, the
\* root _find_thread_root returns is the last email visited before the repeat.
C11_CycleRootIsLastVisited ==
    (/\ tb_i <= Len(tb_emails)
     /\ tb_walk.pc = "return"
     /\ EndsOnRepeat(tb_emails, tb_emails[tb_i]))
    => LET order == WalkOrder(tb_emails, tb_emails[tb_i],
                              WalkStart(tb_emails[tb_i]), <<>>)
       IN  tb_walk.ret = order[Len(order)]

\* C12: for every thread build_threads returns, get_thread_metadata reports
\* the thread's key as root_message_id, the subject of an email with that
\* identity and the tags of that subject, and the number of members as
\* email_count, whatever the order of the batch.
C12_MetadataOfResolvedRoot ==
    TbDone =>
      \A k \in 1..Len(tb_threads.keys) :
        LET root_id == tb_threads.keys[k]
            members == tb_threads.val[root_id]
            thread_meta == GetThreadMetadata(members)
        IN  /\ thread_meta.root_message_id = root_id
            /\ thread_meta.email_count = Len(members)
            /\ root_id \in EmailMapKeys(tb_emails) =>
                 \E i \in 1..Len(tb_emails) :
                   /\ tb_emails[i].message_id = root_id
                   /\ thread_meta.subject = tb_emails[i].subject
                   /\ thread_meta.tags = ExtractTags(tb_emails[i].subject)

\* ------------------------------------------------------ claims on Database

C4_OneThreadPerRoot ==
    /\ [][(call'.op = "insert_thread" /\ ncalls' = ncalls + 1
           /\ ThreadsUniqueViolation(threads, call'.arg.root_message_id))
          => /\ Cardinality(threads') = Cardinality(threads)
             /\ exc' = "none"
             /\ \E r \in threads :
                  /\ r.root_message_id = call'.arg.root_message_id
                  /\ ret' = r.id
                  /\ [r EXCEPT !.email_count = call'.arg.email_count,
                               !.last_post = call'.arg.last_post] \in threads']_vars
    /\ [](/\ \A r1, r2 \in threads :
               r1.root_message_id = r2.root_message_id => r1 = r2
          /\ {r.root_message_id : r \in threads} = inserted_roots)

\* insert_thread has been called for a stored root_message_id with another
\* email_count, while a thread of another root is stored too.
C4_Witness ==
    /\ call.op = "insert_thread"
    /\ call.dup
    /\ Cardinality(threads) = 2
    /\ \E r \in threads :
         /\ r.root_message_id = call.arg.root_message_id
         /\ r.email_count = call.arg.email_count
         /\ r.first_post # call.arg.first_post
         /\ ret = r.id

\* C5: a link_email_to_thread for a pair that is already linked raises nothing
\* and leaves the link rows, and the other tables, as they are.
C5_LinkIdempotent ==
    [][(call'.op = "link_email_to_thread" /\ ncalls' = ncalls + 1
        /\ LinkUniqueViolation(thread_emails, call'.arg[1], call'.arg[2]))
       => /\ thread_emails' = thread_emails
          /\ emails' = emails
          /\ threads' = threads
          /\ exc' = "none"]_vars

\* A pair has been linked a second time.
C5_Witness ==
    /\ call.op = "link_email_to_thread"
    /\ call.dup
    /\ call.arg \in thread_emails
    /\ exc = "none"

\* ------------------------------------------------- claims on the ingestion

\* C2: a run of the pipeline over the archive of the run before it leaves the
\* number of stored emails and the number of stored threads as they were.
C2_ReingestKeepsCounts ==
    [][(call'.op = "process_mbox" /\ ncalls' = ncalls + 1
        /\ call.op = "process_mbox" /\ call'.arg = call.arg)
       => GetStats(Db') = GetStats(Db)]_vars

\* An archive of two emails in two threads has been ingested a second time,
\* into a database that held a third email before its first run.
C2_Witness ==
    /\ call.op = "process_mbox"
    /\ call.dup
    /\ ncalls = MaxRuns + 1
    /\ Len(call.arg) = 2
    /\ Cardinality(threads) >= 2
    /\ Cardinality(emails) = 3

\* C3: after every sequence of ingestion runs, the email_count of every stored
\* thread is the number of its rows in thread_emails.
C3_EmailCountIsLinkCount ==
    \A t \in threads :
      t.email_count = Cardinality({l \in thread_emails : l[1] = t.id})

\* ------------------------------------------- claims on failures of ingestion

\* The message_ids of the emails of the batch other than the one whose write
\* failed.
OtherIds(archive, f) ==
    {archive[i].message_id :
       i \in {j \in 1..Len(archive) : ~(f.table = "emails" /\ f.at = j)}}

\* C13: a run in which the write of one email or one thread fails raises
\* nothing, stores every other email of the batch and a thread for every other
\* root, and returns a manifest of counts.
C13_WriteFailureCaptured ==
    [][(call'.op = "process_mbox" /\ ncalls' = ncalls + 1
        /\ fault'.table # "none")
       => /\ exc' = "none"
          /\ OtherIds(call'.arg, fault')
               \subseteq {r.message_id : r \in emails'}
          /\ Cardinality(threads')
               >= Len(BuildThreads(call'.arg).keys) - 1
          /\ ret' # None]_vars

\* ----------------------------------------------------- claims on the parsers

\* The entry has no identity of its own: no Message-ID header, no atom:id.
LacksId(entry) ==
    IF source.kind = "mbox" THEN entry.message_id = <<>> ELSE ~entry.has_id

\* C14: every email a parser returns has a non-empty message_id, and the
\* emails made from entries without an identity have message_ids that differ
\* from the message_id of every other email of the list.
C14_NonEmptyDistinctIds ==
    (parse_pc = "done" /\ parse_exc = "none") =>
      /\ \A i \in 1..Len(parsed) : parsed[i].message_id # <<>>
      /\ \A i, j \in 1..Len(parsed) :
           (i # j /\ LacksId(source.entries[parsed_from[i]]))
           => parsed[i].message_id # parsed[j].message_id

\* The entry cannot be parsed: its Message-ID header makes _parse_message
\* raise, or it is not well-formed XML.
Malformed(entry) ==
    IF source.kind = "mbox" THEN IsHeaderObject(entry.message_id)
    ELSE ~entry.well_formed

\* The emails of the entries from position i on that can be parsed, in order.
RECURSIVE EmailsOfWellFormed(_, _)
EmailsOfWellFormed(entries, i) ==
    IF i > Len(entries) THEN <<>>
    ELSE IF Malformed(entries[i]) THEN EmailsOfWellFormed(entries, i + 1)
    ELSE <<IF source.kind = "mbox" THEN ParseMessage(entries[i]).ret
           ELSE ParseEntry(entries[i])>>
           \o EmailsOfWellFormed(entries, i + 1)

\* C15: a parser that has ended has raised nothing and returns exactly the
\* emails of the entries that can be parsed, one error being logged for each
\* entry that cannot.
C15_MalformedSkippedAndCounted ==
    parse_pc = "done" =>
      /\ parse_exc = "none"
      /\ parsed = EmailsOfWellFormed(source.entries, 1)
      /\ parse_logged =
           Cardinality({i \in 1..Len(source.entries) :
                          Malformed(source.entries[i])})

\* ----------------------------------------------- claims on the summarization

\* The cache key of the request in progress.
ReqCacheKey == GetCacheKey(client, req.content, req.summary_type)

\* The client reads the cache and the cache holds the key of the request.
KeyInCache == client.enable_cache /\ ReqCacheKey \in DOMAIN cache

\* C16: a request whose cache key is in the cache returns the cached payload
\* at the cache check, without truncating, without a rate-limit slot and
\* without a call of the provider; the content is truncated and the provider
\* is called only after a cache check that found nothing.
C16_CacheHitSkipsProvider ==
    /\ [][(req.pc = "check_cache" /\ KeyInCache /\ req' # req)
          => /\ req'.pc \in {"returned", "done"}
             /\ req'.summary_data = cache[ReqCacheKey]
             /\ req.caller = "client" => req'.ret = cache[ReqCacheKey]
             /\ req'.hit /\ ~req'.truncated
             /\ req'.slots = 0 /\ req'.calls = 0
             /\ client'.request_count = client.request_count
             /\ client'.metrics.api_calls = client.metrics.api_calls]_vars
    /\ [][(req'.pc = "truncate" /\ req.pc # "truncate")
          => (req.pc = "check_cache" /\ ~KeyInCache)]_vars
    /\ [][(req'.calls # req.calls \/ req'.slots # req.slots)
          => (req.pc = "call" \/ req'.pc \in {"check_cache", "done"})]_vars
    /\ [](req.hit => (~req.truncated /\ req.slots = 0 /\ req.calls = 0))
    /\ []((req.truncated \/ req.calls > 0 \/ req.pc \in {"truncate", "call"})
            => ~req.hit)

\* A thread request has been answered from the cache, by a client that has
\* called the provider for nothing.
C16_Witness ==
    /\ req.pc = "done"
    /\ req.hit
    /\ req.summary_type = "thread"
    /\ req.ret = cache[ReqCacheKey]
    /\ client.metrics.api_calls = 0
    /\ client.metrics.cache_hits = 1

\* The request has ended in terminal failure: the provider was called, every
\* attempt raised, and the client has returned an error summary.
TerminalFailure(r) ==
    /\ r.pc \in {"returned", "done"}
    /\ r.calls > 0
    /\ r.summary_data.error # ""

\* C17: the step in which a request ends in terminal failure writes nothing to
\* the cache, so that the key of the request is not in the cache the client
\* reads; no step of a failed request adds a row to summaries; and no payload
\* in the cache is an error summary.
C17_FailureLeavesNoTrace ==
    /\ [][(req.pc = "call" /\ TerminalFailure(req'))
          => /\ cache' = cache
             /\ summaries' = summaries
             /\ client'.enable_cache =>
                  GetCacheKey(client', req'.content, req'.summary_type)
                    \notin DOMAIN cache']_vars
    /\ [][TerminalFailure(req)
          => (cache' = cache /\ summaries' = summaries)]_vars
    /\ [](\A cache_key \in DOMAIN cache : cache[cache_key].error = "")

\* LKMLSummarizer.summarize_thread has ended after MaxAttempts failed calls of
\* the provider, with a client that reads the cache: the cache and the table
\* summaries are empty.
C17_Witness ==
    /\ req.pc = "done"
    /\ req.caller = "summarizer"
    /\ TerminalFailure(req)
    /\ req.attempts = MaxAttempts
    /\ client.enable_cache
    /\ ReqCacheKey \notin DOMAIN cache
    /\ summaries = {}
    /\ client.metrics.errors = MaxAttempts

\* The model identifiers a client can carry.
ModelNames == {ModelName(model) : model \in Models}

\* C18: a request that has ended has returned an object and not None; after a
\* terminal failure the object is the error summary, with the summary type of
\* the request, the reason of the failure in tldr, a model identifier and the
\* time of generation.
C18_NeverReturnsNone ==
    req.pc = "done" =>
      /\ req.ret # NoneDict
      /\ TerminalFailure(req) =>
           /\ req.ret = req.summary_data
           /\ req.ret.summary_type = req.summary_type
           /\ req.ret.tldr = <<"Error generating summary: ", req.ret.error>>
           /\ req.ret.llm_model \in ModelNames
           /\ req.ret.generated_at \in 1..now

\* C18 for the requests made of GeminiClient itself, which do hold.
C18_ClientNeverReturnsNone ==
    (req.pc = "done" /\ req.caller = "client") => C18_NeverReturnsNone

\* The step enters LKMLSummarizer.summarize_thread without force.
StartsUnforced ==
    /\ nreqs' = nreqs + 1
    /\ req'.caller = "summarizer"
    /\ ~req'.force

\* The summaries stored for a thread by a model.
StoredFor(thread_id, model_name) ==
    {row \in summaries : /\ row.thread_id = thread_id
                         /\ row.summary_type = "thread"
                         /\ row.llm_model = model_name}

\* C19: once a summary of a thread by the model of the client is stored, a
\* request without force for that thread ends at once with a stored summary
\* of that model, without a call of the provider and without a new row; and a
\* request by a client of a model that has stored no summary of the thread is
\* not answered with a stored row.
C19_IdempotentPerModel ==
    /\ [][(StartsUnforced
             /\ StoredFor(req'.thread_id, client.model_name) # {})
          => /\ req'.pc = "done"
             /\ req'.ret \in StoredFor(req'.thread_id, client.model_name)
             /\ req'.calls = 0
             /\ client' = client
             /\ summaries' = summaries]_vars
    /\ [][(StartsUnforced
             /\ StoredFor(req'.thread_id, client.model_name) = {})
          => req'.ret \notin summaries]_vars

\* C19 as the code has it, per (thread, summary type): a request without force
\* for a thread with a stored summary ends at once with a stored summary of
\* the thread, without a call of the provider and without a new row.
C19_IdempotentPerThread ==
    [][(StartsUnforced
          /\ \E row \in summaries : row.thread_id = req'.thread_id)
       => /\ req'.pc = "done"
          /\ req'.ret \in summaries
          /\ req'.ret.thread_id = req'.thread_id
          /\ req'.calls = 0
          /\ client' = client
          /\ summaries' = summaries]_vars

\* The summaries stored for a thread.
RowsOfThread(thread_id) ==
    {row \in summaries : /\ row.thread_id = thread_id
                         /\ row.summary_type = "thread"}

\* C20: every row of summaries stays as it is in every step; the table
\* changes only where summarize_thread stores a summary, by one row; a forced
\* request whose summary succeeded adds exactly one row, of its thread; and
\* the stored row a request returns has the greatest generated_at of the rows
\* of its thread.
C20_SummariesAppendOnly ==
    /\ [][\A row \in summaries : row \in summaries']_vars
    /\ [][summaries' # summaries
          => /\ req.pc = "returned"
             /\ Cardinality(summaries') = Cardinality(summaries) + 1]_vars
    /\ [][(req.pc = "returned" /\ req.force /\ req.summary_data.error = "")
          => /\ Cardinality(summaries') = Cardinality(summaries) + 1
             /\ \A row \in summaries' \ summaries :
                  /\ row.thread_id = req.thread_id
                  /\ row.summary_type = "thread"
                  /\ row.tldr = req.summary_data.tldr
                  /\ row.generated_at = req.summary_data.generated_at]_vars
    /\ [][(nreqs' = nreqs + 1 /\ req'.ret \in summaries)
          => /\ req'.ret \in RowsOfThread(req'.thread_id)
             /\ \A row \in RowsOfThread(req'.thread_id) :
                  row.generated_at <= req'.ret.generated_at]_vars

\* After a forced regeneration a thread has an older and a newer summary, and
\* a request without force has returned the newer one.
C20_Witness ==
    /\ req.pc = "done"
    /\ req.caller = "summarizer"
    /\ ~req.force
    /\ req.ret \in summaries
    /\ \E row \in RowsOfThread(req.thread_id) :
         row.generated_at < req.ret.generated_at

\* ---------------------------------------------- claims on the rate limiter

\* The window of the limiter has not ended at the time of its clock.
InWindow == limiter.clock - limiter.lim.request_window_start < Window

\* C21: a call of _rate_limit that finds rate_limit requests counted in the
\* current window sleeps, for wait_time > 0 seconds or longer, and is then
\* counted; every call that is entered returns and is counted, none more
\* than once; and the count of a window never exceeds rate_limit.
C21_LimiterBlocksAndNeverDrops ==
    /\ [][(limiter'.entered = limiter.entered + 1
             /\ limiter.lim.request_count >= limiter.lim.rate_limit
             /\ InWindow)
          => /\ limiter'.pc = "sleeping"
             /\ limiter'.wait_time > 0
             /\ limiter'.returned = limiter.returned]_vars
    /\ [][(limiter.pc = "sleeping" /\ limiter' # limiter)
          => /\ limiter'.pc = "idle"
             /\ limiter'.clock - limiter.clock >= limiter.wait_time
             /\ limiter'.returned = limiter.returned + 1
             /\ limiter'.lim.request_count = 1]_vars
    /\ [](limiter.entered =
            limiter.returned + (IF limiter.pc = "sleeping" THEN 1 ELSE 0))
    /\ [](limiter.lim.request_count <= limiter.lim.rate_limit)
    /\ (limiter.pc = "sleeping" ~> limiter.pc = "idle")

\* The call after rate_limit calls in one window has slept and returned.
C21_Witness ==
    /\ limiter.pc = "idle"
    /\ limiter.slept > 0
    /\ limiter.returned = limiter.lim.rate_limit + 1
    /\ limiter.lim.request_count = 1

\* ------------------------------------------------- claims on the provider

\* The step is an attempt of the provider call that raised.
AttemptFailed ==
    /\ req.pc = "call"
    /\ client'.metrics.errors = client.metrics.errors + 1

\* The step is an attempt of the provider call that was answered.
AttemptAnswered ==
    /\ req.pc = "call"
    /\ req'.calls = req.calls + 1
    /\ client'.metrics.errors = client.metrics.errors

\* C22: a request calls the provider at most MaxAttempts = 3 times; an
\* attempt that fails for a while is followed by a wait and another attempt
\* while fewer than 3 have failed, and the third failure ends the request in
\* terminal failure; an answered attempt ends the calls of the request.
C22_AtMostThreeAttempts ==
    /\ [](req.calls <= MaxAttempts /\ req.attempts = req.calls)
    /\ [][(AttemptFailed /\ req'.last_outcome = "transient")
          => /\ req'.calls = req.calls + 1
             /\ req'.calls < MaxAttempts =>
                  (req'.pc = "call" /\ req'.waits = req.waits + 1)
             /\ req'.calls = MaxAttempts =>
                  /\ TerminalFailure(req')
                  /\ req'.summary_data.error = RetryErrorStr
                  /\ req'.waits = req.waits]_vars
    /\ [][AttemptAnswered => req'.pc \in {"returned", "done"}]_vars
    /\ [][req'.calls # req.calls
          => (req.pc = "call" \/ req'.calls = 0)]_vars

\* A request has ended in terminal failure after two waits and three failed
\* attempts, and another was answered at its third attempt.
C22_Witness ==
    /\ req.pc = "done"
    /\ TerminalFailure(req)
    /\ req.calls = MaxAttempts
    /\ req.waits = MaxAttempts - 1
    /\ req.last_outcome = "transient"
    /\ client.metrics.errors >= MaxAttempts + 2
    /\ client.metrics.api_calls >= 2 * MaxAttempts

\* The failures of the provider that no retry can mend.
NonRetryable == {"quota", "safety"}

\* C23: an attempt that fails with quota exhaustion or a safety rejection
\* ends the request: no backoff wait follows, the provider is not called
\* again, and the request has made that one call.
C23_NonRetryableEndsRequest ==
    /\ [][(AttemptFailed /\ req'.last_outcome \in NonRetryable)
          => /\ req'.pc \in {"returned", "done"}
             /\ req'.waits = req.waits
             /\ TerminalFailure(req')]_vars
    /\ [][(req.pc = "call" /\ req.last_outcome \in NonRetryable)
          => req'.calls = req.calls]_vars

\* C28: an answer of the provider that is not a JSON object (text that is
\* not JSON, or JSON that is no object) raises nothing out of summarize_*:
\* the request goes on to return a dict of its summary type, and no request
\* ever ends with an exception.
C28_MalformedAnswerNeverRaises ==
    /\ [][(AttemptAnswered /\ req'.last_outcome \in {"not_json", "not_object"})
          => /\ req'.exc = "none"
             /\ req'.pc \in {"returned", "done"}
             /\ req'.summary_data # NoneDict
             /\ req'.summary_data.summary_type = req.summary_type
             /\ req'.summary_data.llm_model = client.model_name
             /\ req.caller = "client" => req'.ret = req'.summary_data]_vars
    /\ [](req.exc = "none")

\* summarize_email or generate_daily_digest has returned the error summary
\* of an answer that was JSON but no object.
C28_Witness ==
    /\ req.pc = "done"
    /\ req.caller = "client"
    /\ req.last_outcome = "not_object"
    /\ req.ret.error = "AttributeError"
    /\ req.exc = "none"

\* summarize_thread has returned a summary with an empty tldr for an answer
\* that was not JSON.
C28_WitnessNotJson ==
    /\ req.pc = "done"
    /\ req.caller = "summarizer"
    /\ req.last_outcome = "not_json"
    /\ req.ret # NoneDict
    /\ req.ret.tldr = <<>>

\* ------------------------------------------------ claims on the cache files

\* C29: a read of a cache file that fails, or that finds an unfinished file,
\* is a miss: the request goes on to truncation and to the provider, and
\* returns only after a provider call; a write of a cache file that fails
\* leaves the request to return the summary generated in that step; and no
\* request ends with an exception or returns the content of an unfinished
\* file.
C29_CacheFailureNotFatal ==
    /\ [][(req.pc = "check_cache" /\ req'.read_failed)
          => (req'.pc = "truncate" /\ ~req'.hit /\ req'.exc = "none")]_vars
    /\ [][(req.pc = "check_cache" /\ KeyInCache /\ req' # req
             /\ cache[ReqCacheKey] = Corrupt)
          => (req'.pc = "truncate" /\ ~req'.hit /\ req'.exc = "none")]_vars
    /\ []((req.read_failed /\ req.pc \in {"returned", "done"})
            => req.calls > 0)
    /\ [][(req.pc = "call" /\ req'.write_failed)
          => /\ req'.pc \in {"returned", "done"}
             /\ req'.exc = "none"
             /\ req'.summary_data.error = ""
             /\ req'.summary_data.generated_at = now
             /\ req'.summary_data.tldr \in {<<"tldr">>, <<>>}
             /\ req.caller = "client" => req'.ret = req'.summary_data]_vars
    /\ [](req.exc = "none" /\ req.ret # Corrupt /\ req.summary_data # Corrupt)

\* A request whose read of the cache file failed has called the provider, the
\* write of the new file failed as well, and the generated summary has been
\* returned.
C29_Witness ==
    /\ req.pc = "done"
    /\ req.read_failed
    /\ req.write_failed
    /\ req.calls = 1
    /\ req.ret # NoneDict
    /\ req.ret.error = ""
    /\ req.ret.tldr = <<"tldr">>

\* A request has found an unfinished cache file, has called the provider and
\* has returned the generated summary.
C29_WitnessUnfinishedFile ==
    /\ req.pc = "done"
    /\ ~req.read_failed
    /\ ~req.hit
    /\ req.calls = 1
    /\ client.metrics.cache_hits = 1
    /\ req.ret # NoneDict
    /\ req.ret.error = ""

\* ------------------------------------------------ claims on growing threads

\* The string the cache key of a thread is made of: the identities of its
\* emails in the order of the query.
MemberKey(db, thread_id) == ThreadKey(ThreadEmailRows(db, thread_id))

\* The database after the step.
DbAfter == [emails |-> emails', threads |-> threads',
            thread_emails |-> thread_emails']

\* The summary generated at time generated_at was made of the emails of
\* member_key: the client has cached it under the key of that string.
GeneratedFor(generated_at, member_key) ==
    \E cache_key \in DOMAIN cache' :
      /\ cache_key[1] = "thread"
      /\ cache_key[2] = member_key
      /\ cache'[cache_key].generated_at = generated_at

\* C24: an email added to a thread changes the string its cache key is made
\* of, and a request for a summary of a thread that returns one returns a
\* summary made of the emails the thread has at the request, not one of the
\* thread before it grew.
C24_GrownThreadNotAnsweredStale ==
    /\ [][\A thread_id \in ThreadIds :
            (\E link \in thread_emails' \ thread_emails :
               link[1] = thread_id)
            => MemberKey(DbAfter, thread_id) # MemberKey(Db, thread_id)]_vars
    /\ [][(req' # req /\ req'.pc = "done" /\ req'.ret # NoneDict)
          => GeneratedFor(req'.ret.generated_at,
                          MemberKey(DbAfter, req'.thread_id))]_vars

\* C24 for the requests that reach the client (forced ones, and the first of
\* a thread), which do hold: the key of the request is made of the emails
\* the thread has.
C24_ClientKeyFollowsMembers ==
    /\ [][\A thread_id \in ThreadIds :
            (\E link \in thread_emails' \ thread_emails :
               link[1] = thread_id)
            => MemberKey(DbAfter, thread_id) # MemberKey(Db, thread_id)]_vars
    /\ [](req.pc \in {"check_cache", "truncate", "call", "returned"}
            => req.content = MemberKey(Db, req.thread_id))
    /\ [][(req' # req /\ req'.pc = "done" /\ req'.ret # NoneDict
             /\ req'.force)
          => GeneratedFor(req'.ret.generated_at,
                          MemberKey(DbAfter, req'.thread_id))]_vars

\* ---------------------------------------------- claims on the truncation

\* sub can be made from seq by leaving elements out.
RECURSIVE IsSubsequence(_, _)
IsSubsequence(sub, seq) ==
    IF sub = <<>> THEN TRUE
    ELSE IF seq = <<>> THEN FALSE
    ELSE IF Head(sub) = Head(seq) THEN IsSubsequence(Tail(sub), Tail(seq))
    ELSE IsSubsequence(sub, Tail(seq))

\* The identities of the emails of a list.
IdsOf(seq) == {seq[i].message_id : i \in 1..Len(seq)}

\* _smart_truncate_thread has been called on a thread that it truncates.
Truncated ==
    /\ trunc.pc # "ready"
    /\ Len(trunc.thread_emails) > TruncateThreshold

\* The last three emails of the thread handed to _smart_truncate_thread.
LastThree ==
    SubSeq(trunc.thread_emails, Len(trunc.thread_emails) - KeepLast + 1,
           Len(trunc.thread_emails))

\* The places of the result that hold neither the root nor an email with the
\* identity of one of the last three.
FurtherPlaces ==
    {i \in 2..Len(trunc.result) :
       trunc.result[i].message_id \notin IdsOf(LastThree)}

\* C25: the result of a truncation begins with the root; it holds an email of
\* the identity of each of the last three emails, and ends with those three
\* when the identities of the thread are distinct; at most three further
\* emails are in it, each with a [PATCH or [RFC subject; no two of its
\* emails have one message_id; and it is a subsequence of the thread.
C25_TruncationKeepsRootPatchesTail ==
    Truncated =>
      /\ trunc.result # <<>>
      /\ trunc.result[1] = trunc.thread_emails[1]
      /\ IdsOf(LastThree) \subseteq IdsOf(trunc.result)
      /\ Cardinality(IdsOf(trunc.thread_emails)) = Len(trunc.thread_emails)
           => SubSeq(trunc.result, Len(trunc.result) - KeepLast + 1,
                     Len(trunc.result)) = LastThree
      /\ Cardinality(FurtherPlaces) <= KeepPatches
      /\ \A i \in FurtherPlaces : trunc.result[i].subject \in TaggedSubjects
      /\ \A i, j \in 1..Len(trunc.result) :
           i # j => trunc.result[i].message_id # trunc.result[j].message_id
      /\ IsSubsequence(trunc.result, trunc.thread_emails)

\* A thread with four patch emails between its root and its last three has
\* been truncated to seven emails.
C25_Witness ==
    /\ Truncated
    /\ Len(trunc.result) = 1 + KeepPatches + KeepLast
    /\ Cardinality({i \in 2..(Len(trunc.thread_emails) - KeepLast) :
                      trunc.thread_emails[i].subject \in TaggedSubjects})
         = KeepPatches + 1

\* A thread in which one of the last three emails has the identity of the
\* root has been truncated: that email is left out.
C25_WitnessDuplicate ==
    /\ Truncated
    /\ trunc.thread_emails[Len(trunc.thread_emails)].message_id
         = trunc.thread_emails[1].message_id
    /\ Len(trunc.result) = KeepLast

\* The characters of the bodies of a list of emails.
RECURSIVE BodyChars(_)
BodyChars(seq) ==
    IF seq = <<>> THEN 0 ELSE Head(seq).body_chars + BodyChars(Tail(seq))

\* The estimated size of a thread in tokens.
EstimatedTokens(seq) == BodyChars(seq) \div CharsPerToken

\* C26: _smart_truncate_thread changes the thread exactly when its estimated
\* size in tokens is above the ceiling of the model of the client; a thread
\* at or below the ceiling is returned as it is.
C26_TruncatesExactlyAboveCeiling ==
    trunc.pc # "ready" =>
      /\ (trunc.result # trunc.thread_emails)
           <=> (EstimatedTokens(trunc.thread_emails)
                  > TokenLimitOf(client.model_name))
      /\ EstimatedTokens(trunc.thread_emails)
           <= TokenLimitOf(client.model_name)
           => trunc.result = trunc.thread_emails

\* C26 as the code has it: the thread is changed exactly when it has more
\* than TruncateThreshold = 10 emails, whatever their size.
C26_TruncatesAboveTenEmails ==
    trunc.pc # "ready" =>
      ((trunc.result # trunc.thread_emails)
         <=> (Len(trunc.thread_emails) > TruncateThreshold))

ResolvedParent(batch, id) ==
    LET e == EmailMapGet(batch, id)
    IN  IF e.in_reply_to # Empty /\ e.in_reply_to \in EmailMapKeys(batch)
        THEN e.in_reply_to
        ELSE IF Len(e.references) > 0 /\ e.references[1] \in EmailMapKeys(batch)
        THEN e.references[1]
        ELSE Empty

\* Following the resolved parents from id comes back to an identity in seen.
RECURSIVE ResolvedCycle(_, _, _)
ResolvedCycle(batch, id, seen) ==
    LET parent == ResolvedParent(batch, id)
    IN  IF parent = Empty THEN FALSE
        ELSE IF parent \in seen \cup {id} THEN TRUE
        ELSE ResolvedCycle(batch, parent, seen \cup {id})

\* A batch with no reply cycles: no walk from an indexed email comes back to
\* an email it has seen, neither along the resolved parents nor along the
\* parents with the fallback to any indexed reference.
NoReplyCycles(batch) ==
    \A id \in EmailMapKeys(batch) :
      /\ ~ResolvedCycle(batch, id, {})
      /\ ~StatedWalk(batch, id, {}).cyclic

\* The keys of the threads of d that hold the email e.
ThreadsOf(d, e) ==
    {d.keys[k] : k \in {n \in 1..Len(d.keys) : e \in Range(d.val[d.keys[n]])}}

\* C30: in the partition build_threads returns for a batch with no reply
\* cycles, an email and the indexed parent it resolves through are in the
\* same thread, the root of every thread resolves to itself, and an email
\* with the identity of the root is a member of the thread.
C30_ThreadsClosedUnderReply ==
    (TbDone /\ NoReplyCycles(tb_emails)) =>
      /\ \A i \in 1..Len(tb_emails) :
           LET e == tb_emails[i]
           IN  (e.message_id # Empty
                  /\ ResolvedParent(tb_emails, e.message_id) # Empty)
               => ThreadsOf(tb_threads, e)
                    = ThreadsOf(tb_threads,
                        EmailMapGet(tb_emails,
                          ResolvedParent(tb_emails, e.message_id)))
      /\ \A k \in 1..Len(tb_threads.keys) :
           LET root_id == tb_threads.keys[k]
           IN  /\ root_id \in EmailMapKeys(tb_emails) =>
                    FindThreadRoot(tb_emails, EmailMapGet(tb_emails, root_id))
                      = root_id
               /\ \E j \in 1..Len(tb_threads.val[root_id]) :
                    tb_threads.val[root_id][j].message_id = root_id

\* C30 for the batches in which no email resolves through its references:
\* every resolved parent is an in_reply_to.
C30_ClosedAlongInReplyTo ==
    (/\ TbDone
     /\ NoReplyCycles(tb_emails)
     /\ \A id \in EmailMapKeys(tb_emails) :
          ResolvedParent(tb_emails, id)
            \in {Empty, EmailMapGet(tb_emails, id).in_reply_to})
    => C30_ThreadsClosedUnderReply

\* ------------------------------------------------ claims on the request path

\* The answer of the last provider attempt of the request was text that
\* _parse_json_response could not parse.
UnparsedAnswer(r) == r.last_outcome = "not_json"

\* C31: when the text of the provider's answer fails JSON parsing, the request
\* writes no entry to the cache and inserts no row into summaries.
C31_UnparsedAnswerNotStored ==
    [][UnparsedAnswer(req') => (cache' = cache /\ summaries' = summaries)]_vars

\* What the code does with such an answer: the result is built from the empty
\* dict, without an 'error' key, and is cached and stored like any other.
C31_UnparsedAnswerStoredAsSuccess ==
    /\ [][(UnparsedAnswer(req') /\ req'.attempts = req.attempts + 1)
          => /\ req'.summary_data.error = ""
             /\ req'.summary_data.tldr = <<>>
             /\ client.enable_cache
                  => cache'[GetCacheKey(client, req.content, req.summary_type)]
                       = req'.summary_data]_vars
    /\ [][(UnparsedAnswer(req) /\ req.pc = "returned" /\ req' # req)
          => Cardinality(summaries') = Cardinality(summaries) + 1]_vars

\* The times of the calls i..j that were allowed to proceed do not go back
\* (the clock was not set back between them).
Forward(i, j) ==
    \A k \in i..(j - 1) : limiter.allowed[k] <= limiter.allowed[k + 1]

\* C32: no interval of 60 seconds contains more than rate_limit calls of
\* _rate_limit that were allowed to proceed: of any rate_limit + 1 calls in
\* a row, the last returned 60 seconds or more after the first.
C32_RollingWindowBound ==
    \A i \in 1..Len(limiter.allowed) :
      LET j == i + limiter.lim.rate_limit
      IN  (j <= Len(limiter.allowed) /\ Forward(i, j))
          => limiter.allowed[j] - limiter.allowed[i] >= Window

\* What the counter of the code bounds: the calls that return in one window
\* of the limiter, from request_window_start on.
C32_FixedWindowBound ==
    limiter.lim.request_count <= limiter.lim.rate_limit

\* ------------------------------------------------- claims on the upsert

\* The step is an insert_thread for a root_message_id that is stored.
UpsertStep ==
    /\ call'.op = "insert_thread"
    /\ ncalls' = ncalls + 1
    /\ ThreadsUniqueViolation(threads, call'.arg.root_message_id)

\* C33: an insert_thread for a stored root_message_id sets email_count and
\* last_post of the stored row to those of the new metadata and leaves its
\* id, subject, participant_count, first_post and tags as they are; every
\* other thread row, and every email and link row, stays as it is.
C33_UpsertFrame ==
    [][UpsertStep =>
         /\ emails' = emails
         /\ thread_emails' = thread_emails
         /\ \A r \in threads :
              IF r.root_message_id = call'.arg.root_message_id
              THEN \E q \in threads' :
                     /\ q.id = r.id
                     /\ q.root_message_id = r.root_message_id
                     /\ q.subject = r.subject
                     /\ q.participant_count = r.participant_count
                     /\ q.first_post = r.first_post
                     /\ q.tags = r.tags
                     /\ q.email_count = call'.arg.email_count
                     /\ q.last_post = call'.arg.last_post
              ELSE r \in threads'
         /\ \A q \in threads' : \E r \in threads : q.id = r.id]_vars

\* insert_thread has been called for a stored root_message_id with metadata
\* that differs from the stored row in every column, while a thread of another
\* root, an email and a link are stored too.
C33_Witness ==
    /\ call.op = "insert_thread"
    /\ call.dup
    /\ \E r \in threads :
         /\ r.root_message_id = call.arg.root_message_id
         /\ r.subject # call.arg.subject
         /\ r.participant_count # call.arg.participant_count
         /\ r.first_post # call.arg.first_post
         /\ r.tags # call.arg.tags
         /\ r.email_count = call.arg.email_count
         /\ r.last_post = call.arg.last_post
    /\ Cardinality(threads) = 2
    /\ emails # {}

\* ------------------------------------------- claims on repeated ingestion

\* The stored threads the stored email row e is linked to.
LinkedThreads(e) == {t \in threads : <<t.id, e.id>> \in thread_emails}

\* C34: after any sequence of runs of process_mbox over different batches,
\* every stored email is linked to at most one stored thread.
C34_EmailInAtMostOneThread ==
    \A e \in emails : Cardinality(LinkedThreads(e)) <= 1

\* C34 within one run: the links a run adds for an email that was not stored
\* before it are to one thread.
C34_NewEmailInOneThread ==
    [][\A e \in emails' \ emails :
         Cardinality({t \in threads' : <<t.id, e.id>> \in thread_emails'})
           <= 1]_vars

\* ------------------------------------------- claims on forced regeneration

\* A forced summarize_thread has returned a summary.
ForcedDone ==
    /\ req.pc = "done"
    /\ req.caller = "summarizer"
    /\ req.force
    /\ req.ret # NoneDict

\* C35: summarize_thread with force=True calls the provider at least once,
\* also when a summary of the thread is stored and cached, and the row it
\* stores holds the result of that call.
C35_ForceRegenerates ==
    ForcedDone =>
      /\ req.calls >= 1
      /\ ~req.hit
      /\ \E row \in summaries :
           /\ row.thread_id = req.thread_id
           /\ row.generated_at = req.ret.generated_at
           /\ \A q \in summaries \ {row} :
                q.thread_id = req.thread_id
                  => q.generated_at < row.generated_at

\* What force does in the code: the stored row is not looked up, and the
\* provider is called unless the cache of the client answers.
C35_ForceSkipsStoredRowOnly ==
    /\ (ForcedDone /\ ~req.hit) => req.calls >= 1
    /\ (ForcedDone /\ req.hit) => req.calls = 0
    /\ [][(req'.force /\ nreqs' = nreqs + 1)
          => (req'.pc = "done" => req'.ret = NoneDict)]_vars

\* ------------------------------------------------ claims on summarize_email

\* summarize_email has returned a summary that is no error summary.
EmailSummaryReturned ==
    /\ req.pc = "done"
    /\ req.summary_type = "email"
    /\ req.ret # NoneDict
    /\ req.ret.error = ""

\* C36: the summary summarize_email returns carries the identity of the email
\* it was called with, also when it is answered from the cache.
C36_EmailSummaryOfOwnEmail ==
    EmailSummaryReturned => req.ret.email_id = req.email_id

\* The summaries the provider was called for carry the identity of their
\* email, and an answer from the cache is the file of the key of body and
\* subject.
C36_GeneratedSummaryOfOwnEmail ==
    EmailSummaryReturned =>
      /\ ~req.hit => req.ret.email_id = req.email_id
      /\ req.hit => req.ret = cache[ReqCacheKey]

\* ------------------------------------------------ claims on the cache key

\* C37: two threads whose ordered lists of member message_ids differ never
\* get the same string to hash: the key is injective on member lists.
C37_ThreadKeyInjective ==
    (keyed.pc = "both" /\ keyed.members # keyed.others)
      => keyed.key # keyed.other_key

\* What the key tells apart: the characters of the identities in a row.
C37_KeyOfJoinedCharacters ==
    keyed.pc = "both" =>
      ((keyed.key = keyed.other_key)
         <=> (JoinIds(keyed.members) = JoinIds(keyed.others)))

\* ------------------------------------------------ claims on the metrics

\* The step answers the request from the cache.
AnsweredFromCache == req'.hit /\ ~req.hit

\* The step is an attempt of the provider call.
ProviderAttempted == req.pc = "call" /\ req'.attempts = req.attempts + 1

\* C38: metrics['cache_hits'] counts the requests answered from the cache and
\* metrics['api_calls'] the attempts of the provider call; a cache file that
\* is there but cannot be read adds nothing to cache_hits.
C38_MetricsCountHitsAndCalls ==
    /\ [][client'.metrics.cache_hits =
            client.metrics.cache_hits
              + (IF AnsweredFromCache THEN 1 ELSE 0)]_vars
    /\ [][client'.metrics.api_calls =
            client.metrics.api_calls
              + (IF ProviderAttempted THEN 1 ELSE 0)]_vars

\* What the counters count in the code: api_calls the attempts, cache_hits
\* the cache files that were opened, whether or not json.load could read
\* them.
C38_HitsCountOpenedFiles ==
    /\ [][client'.metrics.api_calls =
            client.metrics.api_calls
              + (IF ProviderAttempted THEN 1 ELSE 0)]_vars
    /\ [][client'.metrics.cache_hits \in
            {client.metrics.cache_hits, client.metrics.cache_hits + 1}]_vars
    /\ [][AnsweredFromCache
          => client'.metrics.cache_hits = client.metrics.cache_hits + 1]_vars
    /\ [][(client'.metrics.cache_hits # client.metrics.cache_hits
             /\ ~AnsweredFromCache)
          => (req.pc = "check_cache" /\ KeyInCache /\ req'.pc = "truncate")]_vars

\* ------------------------------------------- claims on the size of the cut

\* The message_ids of the thread handed to _smart_truncate_thread are
\* pairwise distinct.
DistinctMembers ==
    \A i, j \in 1..Len(trunc.thread_emails) :
      trunc.thread_emails[i].message_id = trunc.thread_emails[j].message_id
        => i = j

\* C39: _smart_truncate_thread returns a thread of at most 10 emails as it
\* is, and returns at least 4 and at most 7 emails of a thread of more than
\* 10 emails with pairwise distinct message_ids.
C39_TruncatedSize ==
    trunc.pc \in {"once", "twice"} =>
      /\ Len(trunc.thread_emails) <= 10
           => trunc.result = trunc.thread_emails
      /\ (Len(trunc.thread_emails) > 10 /\ DistinctMembers)
           => (Len(trunc.result) >= 4 /\ Len(trunc.result) <= 7)

\* A thread of 11 distinct emails with four patch emails in its middle has
\* been cut to 7 emails.
C39_Witness ==
    /\ trunc.pc = "once"
    /\ Len(trunc.thread_emails) = 11
    /\ DistinctMembers
    /\ Cardinality({i \in 2..8 :
                      trunc.thread_emails[i].subject \in TaggedSubjects}) = 4
    /\ Len(trunc.result) = 7

\* A thread of 11 distinct emails without a patch email has been cut to 4.
C39_WitnessFour ==
    /\ trunc.pc = "once"
    /\ Len(trunc.thread_emails) = 11
    /\ DistinctMembers
    /\ Len(trunc.result) = 4

\* A thread of 10 emails has been returned as it is.
C39_WitnessUnchanged ==
    /\ trunc.pc = "once"
    /\ Len(trunc.thread_emails) = 10
    /\ trunc.result = trunc.thread_emails

\* C40: summarize_all_threads accounts for every thread it starts.  When it
\* has returned, success + errors is the number of threads handed to
\* summarize_thread, and every thread counted as a success has a summary row.
\* With skip_errors set, every selected thread was started, in the order of
\* the query, so success + errors is the number of selected threads whatever
\* failed on the way.  Without it, at most one thread failed, that thread is
\* the last one started, and the threads after it were not started.
C40_SweepAccountsForThreads ==
    sweep.pc = "returned" =>
      /\ sweep.stats.success + sweep.stats.errors = Len(sweep.started)
      /\ sweep.stats.errors = Len(sweep.failed)
      /\ \A i \in 1..Len(sweep.started) :
           (\A j \in 1..Len(sweep.failed) :
              sweep.failed[j] # sweep.started[i])
             => \E s \in summaries :
                  /\ s.thread_id = sweep.started[i]
                  /\ s.summary_type = "thread"
      /\ sweep.skip_errors =>
           /\ sweep.started = sweep.selected
           /\ sweep.stats.success + sweep.stats.errors = Len(sweep.selected)
      /\ ~sweep.skip_errors =>
           /\ Len(sweep.started) <= Len(sweep.selected)
           /\ sweep.started = SubSeq(sweep.selected, 1, Len(sweep.started))
           /\ Len(sweep.failed) <= 1
           /\ sweep.failed # <<>> =>
                sweep.failed[1] = sweep.started[Len(sweep.started)]
           /\ sweep.failed = <<>> => sweep.started = sweep.selected

\* With skip_errors set, the first of several selected threads failed and a
\* later one was summarized and stored.
C40_Witness ==
    /\ sweep.pc = "returned"
    /\ sweep.skip_errors
    /\ Len(sweep.selected) >= 2
    /\ sweep.failed = <<sweep.selected[1]>>
    /\ sweep.stats.success >= 1
    /\ \E s \in summaries : s.thread_id = sweep.selected[2]

\* Without skip_errors, the first of several selected threads failed and the
\* loop was left with the others not started.
C40_WitnessStopped ==
    /\ sweep.pc = "returned"
    /\ ~sweep.skip_errors
    /\ Len(sweep.selected) >= 2
    /\ sweep.failed = <<sweep.selected[1]>>
    /\ sweep.started = <<sweep.selected[1]>>

====
